---- MODULE Spec2Model ----
(***************************************************************************)
(* A model of htsim-rs: the discrete-event simulator kernel (src/src/sim), *)
(* the packet queues (src/src/queue), the packet-forwarding fabric         *)
(* (src/src/net), the TCP and DCTCP state machines (src/src/proto) and the *)
(* ring collective engine (src/src/cc).                                    *)
(*                                                                         *)
(* Every handler of the program is an operator that takes the state it     *)
(* works on and returns the state it leaves; an action of a specification  *)
(* is one call of the driver or one iteration of Simulator::run.           *)
(***************************************************************************)
EXTENDS Integers, Sequences, FiniteSets, TLC

VARIABLES
    sim,      \* Simulator { now, next_seq, q }
    drv,      \* the driver program: which call of the Simulator API it is in
    dummy,    \* DummyWorld { ticks } and the log the test events push to
    tq,       \* a packet queue under test (Box<dyn PacketQueue>)
    qlast,    \* the last call made on tq: its arguments, its result, tq before
    dispatched, \* events the loop of Simulator::run popped on the NetWorld
    network,  \* Network { links, stats, next_pkt_id, tcp, dctcp, viz }
    rx,       \* a TcpConn under test and the recv_data calls made on it
    packet,   \* a Packet under test and the calls of advance made on it
    ring      \* a ring collective: its State and its RingTransport

vars == <<sim, drv, dummy, tq, qlast, dispatched, network, rx, ring, packet>>
unitVars == <<rx, ring, packet>>
netVars == <<dispatched, network>>
queueVars == <<tq, qlast>>

NoneVal == [none |-> TRUE]
Some(x) == [some |-> x]
IsSome(o) == o # NoneVal
Max(a, b) == IF a >= b THEN a ELSE b
Min(a, b) == IF a <= b THEN a ELSE b

\* LET x == e IN B(x), with e evaluated once however often B uses x.
Bind(e, B(_)) == CHOOSE r \in {B(x) : x \in {e}} : TRUE

(***************************************************************************)
(* Bounds of the model.                                                    *)
(***************************************************************************)
MaxEvents == 3     \* schedule calls in a run of the kernel specification
MaxTime == 2       \* latest time a kernel test event is scheduled at
MaxUntil == 3      \* latest `until` of a run_until call
MaxUntilCalls == 2 \* run_until calls of a driver
MaxSegs == 3       \* segments a driver injects in the link priority specification
MaxRouteNodes == 4 \* nodes of a graph of the routing specification
MaxRouteLinks == 4 \* links of a graph of the routing specification
MaxRoutePkts == 2  \* packets a driver injects in the routing specification
MaxQPkts == 3      \* enqueue calls in a run of the queue specification
MaxCap == 2        \* largest capacity (bytes) of the queue under test
MaxPktSize == 1    \* largest size (bytes) of a packet offered to the queue

(***************************************************************************)
(* src/src/sim: ScheduledEvent and Simulator.                              *)
(***************************************************************************)
\* Ordering::cmp of two integers: -1 Less, 0 Equal, 1 Greater.
IntCmp(a, b) == IF a < b THEN -1 ELSE IF a = b THEN 0 ELSE 1

\* A tie-break that prefers the event scheduled last.
ScheduledEventCmpLifo(a, b) ==
    -(IF IntCmp(a.at, b.at) = 0 THEN IntCmp(b.seq, a.seq) ELSE IntCmp(a.at, b.at))

\* ScheduledEvent::cmp: by at, then by seq, reversed (BinaryHeap is a max-heap).
ScheduledEventCmp(a, b) ==
    -(IF IntCmp(a.at, b.at) = 0 THEN IntCmp(a.seq, b.seq) ELSE IntCmp(a.at, b.at))

\* BinaryHeap::peek / pop: an element no other element is greater than.
HeapTop(q, item) == item \in q /\ \A o \in q : ScheduledEventCmp(item, o) >= 0

\* Simulator::default
SimulatorDefault == [now |-> 0, next_seq |-> 0, q |-> {}]

\* Simulator::schedule. next_seq is a u64 that wraps at 2^64; the runs of this
\* model make fewer schedule calls than that.
schedule(s, at, ev) ==
    [s EXCEPT !.next_seq = s.next_seq + 1,
              !.q = s.q \cup {[at |-> at, seq |-> s.next_seq, ev |-> ev]}]

(***************************************************************************)
(* src/src/net/packet.rs: the parts of a Packet the model follows.         *)
(***************************************************************************)
\* Transport::None, Transport::Tcp(TcpSegment), Transport::Dctcp(DctcpSegment)
\* as one record shape; the fields a variant does not have are 0 / FALSE.
TransportOf(proto, seg, seq, ln, ack, echo) ==
    [proto |-> proto, seg |-> seg, seq |-> seq, len |-> ln, ack |-> ack,
     ecn_echo |-> echo]
TransportNone == TransportOf("None", "None", 0, 0, 0, FALSE)
TcpSyn == TransportOf("Tcp", "Syn", 0, 0, 0, FALSE)
TcpSynAck == TransportOf("Tcp", "SynAck", 0, 0, 0, FALSE)
TcpHandshakeAck == TransportOf("Tcp", "HandshakeAck", 0, 0, 0, FALSE)
TcpData(seq, ln) == TransportOf("Tcp", "Data", seq, ln, 0, FALSE)
TcpAck(ack) == TransportOf("Tcp", "Ack", 0, 0, ack, FALSE)
DctcpData(seq, ln) == TransportOf("Dctcp", "Data", seq, ln, 0, FALSE)
DctcpAck(ack, echo) == TransportOf("Dctcp", "Ack", 0, 0, ack, echo)

\* Packet::new_preset
new_preset(id, flow_id, size_bytes, path) ==
    [id |-> id, flow_id |-> flow_id, size_bytes |-> size_bytes,
     src |-> path[1], dst |-> path[Len(path)], ecn |-> "NotEct",
     routing |-> [kind |-> "Preset", path |-> path, idx |-> 0],
     transport |-> TransportNone, hops_taken |-> 0]

\* Packet::new_dynamic
new_dynamic(id, flow_id, size_bytes, src, dst) ==
    [id |-> id, flow_id |-> flow_id, size_bytes |-> size_bytes,
     src |-> src, dst |-> dst, ecn |-> "NotEct",
     routing |-> [kind |-> "Dynamic", path |-> <<>>, idx |-> 0],
     transport |-> TransportNone, hops_taken |-> 0]

\* Packet::preset_next: path.get(idx + 1); the path Vec is 0-based, the
\* sequence of the model 1-based.
preset_next(pkt) ==
    IF pkt.routing.kind \in {"Preset", "Mixed"}
          /\ pkt.routing.idx + 2 <= Len(pkt.routing.path)
    THEN Some(pkt.routing.path[pkt.routing.idx + 2])
    ELSE NoneVal

\* Packet::new_mixed
new_mixed(id, flow_id, size_bytes, prefix, dst) ==
    [id |-> id, flow_id |-> flow_id, size_bytes |-> size_bytes,
     src |-> prefix[1], dst |-> dst, ecn |-> "NotEct",
     routing |-> [kind |-> "Mixed", path |-> prefix, idx |-> 0],
     transport |-> TransportNone, hops_taken |-> 0]

\* u32::MAX, where hops_taken saturates. The integers of the checker end at
\* 2^31 - 1, which stands for it.
HopsTakenMax == 2^30 + (2^30 - 1)

\* Packet::advance
advance(pkt) ==
    LET r == pkt.routing
        idx == CASE r.kind = "Preset" -> r.idx + 1
                 [] r.kind = "Mixed" ->
                      IF r.idx + 1 < Len(r.path) THEN r.idx + 1 ELSE Len(r.path)
                 [] OTHER -> r.idx
    IN [pkt EXCEPT !.hops_taken = IF pkt.hops_taken >= HopsTakenMax THEN HopsTakenMax
                                  ELSE pkt.hops_taken + 1,
                   !.routing.idx = idx]

(***************************************************************************)
(* src/src/queue: PriorityQueue and DropTailQueue behind PacketQueue.      *)
(* cur_bytes is a u64 updated with saturating_add; the byte counts of this *)
(* model stay far below 2^64, where saturating_add is +.                   *)
(***************************************************************************)
\* PriorityQueue::new
PriorityQueueNew(max_bytes) ==
    [disc |-> "Priority", max_bytes |-> max_bytes, cur_bytes |-> 0,
     hi |-> <<>>, lo |-> <<>>]

\* DropTailQueue::new
DropTailQueueNew(max_bytes) ==
    [disc |-> "DropTail", max_bytes |-> max_bytes, cur_bytes |-> 0, q |-> <<>>]

\* A classification that leaves HandshakeAck in the bulk class.
is_high_priority_no_hsack(pkt) ==
    \/ pkt.transport.proto = "Tcp" /\ pkt.transport.seg \in {"Ack", "Syn", "SynAck"}
    \/ pkt.transport.proto = "Dctcp" /\ pkt.transport.seg = "Ack"

\* PriorityQueue::is_high_priority
is_high_priority(pkt) ==
    \/ pkt.transport.proto = "Tcp"
          /\ pkt.transport.seg \in {"Ack", "Syn", "SynAck", "HandshakeAck"}
    \/ pkt.transport.proto = "Dctcp" /\ pkt.transport.seg = "Ack"

\* An enqueue that also refuses the packet that exactly fills the queue.
PriorityQueueEnqueueGe(q, pkt) ==
    IF q.cur_bytes + pkt.size_bytes >= q.max_bytes
    THEN [q |-> q, err |-> Some(pkt)]
    ELSE [q |-> IF is_high_priority(pkt)
                THEN [q EXCEPT !.cur_bytes = q.cur_bytes + pkt.size_bytes,
                               !.hi = Append(q.hi, pkt)]
                ELSE [q EXCEPT !.cur_bytes = q.cur_bytes + pkt.size_bytes,
                               !.lo = Append(q.lo, pkt)],
          err |-> NoneVal]

\* PriorityQueue::enqueue: err is None for Ok(()), Some(pkt) for Err(pkt).
PriorityQueueEnqueue(q, pkt) ==
    IF q.cur_bytes + pkt.size_bytes > q.max_bytes
    THEN [q |-> q, err |-> Some(pkt)]
    ELSE [q |-> IF is_high_priority(pkt)
                THEN [q EXCEPT !.cur_bytes = q.cur_bytes + pkt.size_bytes,
                               !.hi = Append(q.hi, pkt)]
                ELSE [q EXCEPT !.cur_bytes = q.cur_bytes + pkt.size_bytes,
                               !.lo = Append(q.lo, pkt)],
          err |-> NoneVal]

\* PriorityQueue::dequeue: hi.pop_front().or_else(|| lo.pop_front())
PriorityQueueDequeue(q) ==
    IF q.hi # <<>>
    THEN [q |-> [q EXCEPT !.hi = Tail(q.hi),
                          !.cur_bytes = Max(0, q.cur_bytes - Head(q.hi).size_bytes)],
          pkt |-> Some(Head(q.hi))]
    ELSE IF q.lo # <<>>
    THEN [q |-> [q EXCEPT !.lo = Tail(q.lo),
                          !.cur_bytes = Max(0, q.cur_bytes - Head(q.lo).size_bytes)],
          pkt |-> Some(Head(q.lo))]
    ELSE [q |-> q, pkt |-> NoneVal]

\* DropTailQueue::enqueue
DropTailQueueEnqueue(q, pkt) ==
    IF q.cur_bytes + pkt.size_bytes > q.max_bytes
    THEN [q |-> q, err |-> Some(pkt)]
    ELSE [q |-> [q EXCEPT !.cur_bytes = q.cur_bytes + pkt.size_bytes,
                          !.q = Append(q.q, pkt)],
          err |-> NoneVal]

\* DropTailQueue::dequeue
DropTailQueueDequeue(q) ==
    IF q.q # <<>>
    THEN [q |-> [q EXCEPT !.q = Tail(q.q),
                          !.cur_bytes = Max(0, q.cur_bytes - Head(q.q).size_bytes)],
          pkt |-> Some(Head(q.q))]
    ELSE [q |-> q, pkt |-> NoneVal]

\* PacketQueue::enqueue / dequeue / len / bytes / capacity_bytes through the
\* Box<dyn PacketQueue>.
enqueue(q, pkt) ==
    IF q.disc = "Priority" THEN PriorityQueueEnqueue(q, pkt)
    ELSE DropTailQueueEnqueue(q, pkt)
dequeue(q) ==
    IF q.disc = "Priority" THEN PriorityQueueDequeue(q) ELSE DropTailQueueDequeue(q)
len(q) == IF q.disc = "Priority" THEN Len(q.hi) + Len(q.lo) ELSE Len(q.q)
bytes(q) == q.cur_bytes
capacity_bytes(q) == q.max_bytes

(***************************************************************************)
(* src/src/net: links, the routing table and the Network. A handler of the *)
(* network takes the world w = [sim, net, drv] and returns the world it    *)
(* leaves; drv is the state the closures of the driver captured.           *)
(* Times are nanoseconds. A bandwidth is held in Mbit/s: for a bandwidth   *)
(* of m * 10^6 bit/s, ceil(bits * 10^9 / bps) = ceil(bits * 1000 / m), and *)
(* the products stay inside the integers of the checker. Every link of the *)
(* model has a bandwidth above 0.                                          *)
(***************************************************************************)
DEFAULT_PKT_BYTES == 1500
DEFAULT_LINK_QUEUE_PKTS == 1000000
DEFAULT_LINK_QUEUE_BYTES == DEFAULT_LINK_QUEUE_PKTS * DEFAULT_PKT_BYTES

\* Link::new
LinkNew(from, to, latency, bandwidth_mbps) ==
    [from |-> from, to |-> to, latency |-> latency,
     bandwidth_mbps |-> bandwidth_mbps, busy_until |-> 0,
     ecn_threshold_bytes |-> NoneVal,
     queue |-> PriorityQueueNew(DEFAULT_LINK_QUEUE_BYTES)]

\* A serialization time one nanosecond short.
tx_time_short(link, nbytes) ==
    Max(0, ((nbytes * 8 * 1000 + (link.bandwidth_mbps - 1)) \div link.bandwidth_mbps) - 1)

\* Link::tx_time
tx_time(link, nbytes) ==
    (nbytes * 8 * 1000 + (link.bandwidth_mbps - 1)) \div link.bandwidth_mbps

\* Network::default, with viz = Some(VizLogger::default()) as the tests set it.
NetworkDefault ==
    [nodes |-> 0, links |-> <<>>, next_pkt_id |-> 0,
     stats |-> [delivered_pkts |-> 0, delivered_bytes |-> 0,
                dropped_pkts |-> 0, dropped_bytes |-> 0],
     tcp |-> [conns |-> <<>>, done_callbacks |-> <<>>],
     dctcp |-> [conns |-> <<>>, done_callbacks |-> <<>>],
     viz |-> <<>>]

\* Network::add_host / add_switch: the node gets the next NodeId.
add_host(net) == [net EXCEPT !.nodes = net.nodes + 1]

\* Network::connect: LinkId(k) is links[k + 1] of the model.
connect(net, from, to, latency, bandwidth_mbps) ==
    [net EXCEPT !.links = Append(net.links, LinkNew(from, to, latency, bandwidth_mbps))]

\* edges.get(&(from, to)): connect inserts into a HashMap, the last link
\* connected for a pair is the one found.
EdgeLink(net, from, to) ==
    CHOOSE i \in DOMAIN net.links :
        /\ net.links[i].from = from /\ net.links[i].to = to
        /\ \A j \in DOMAIN net.links :
              (net.links[j].from = from /\ net.links[j].to = to) => j <= i

\* Network::set_link_queue_capacity_bytes
set_link_queue_capacity_bytes(net, from, to, cap_bytes) ==
    [net EXCEPT !.links[EdgeLink(net, from, to)].queue = DropTailQueueNew(cap_bytes)]

\* Network::make_packet
make_packet(net, flow_id, size_bytes, route) ==
    [net |-> [net EXCEPT !.next_pkt_id = net.next_pkt_id + 1],
     pkt |-> new_preset(net.next_pkt_id, flow_id, size_bytes, route)]

\* Network::make_packet_dynamic
make_packet_dynamic(net, flow_id, size_bytes, src, dst) ==
    [net |-> [net EXCEPT !.next_pkt_id = net.next_pkt_id + 1],
     pkt |-> new_dynamic(net.next_pkt_id, flow_id, size_bytes, src, dst)]

\* Network::viz_push of an event about a packet; x holds the fields of the
\* VizEventKind.
viz_push(net, kind, t_ns, pkt, x) ==
    [net EXCEPT !.viz = Append(net.viz,
        [kind |-> kind, t_ns |-> t_ns, pkt_id |-> pkt.id, flow_id |-> pkt.flow_id,
         pkt_bytes |-> pkt.size_bytes, x |-> x])]

\* RoutingTable::ensure_built, the BFS from dst over rev_adj: the nodes at
\* most k hops from dst.
RECURSIVE BfsWithin(_, _, _)
BfsWithin(net, dst, k) ==
    IF k = 0 THEN {dst}
    ELSE Bind(BfsWithin(net, dst, k - 1), LAMBDA p :
            p \cup {net.links[i].from :
                       i \in {j \in DOMAIN net.links : net.links[j].to \in p}})

\* dist[v] of ensure_built for one dst; -1 stands for i32::MAX (unreachable).
BfsDist(net, dst, v) ==
    Bind([k \in 0..net.nodes |-> BfsWithin(net, dst, k)], LAMBDA within :
       IF v \in within[net.nodes]
       THEN CHOOSE k \in 0..net.nodes :
               /\ v \in within[k]
               /\ \A j \in 0..(k - 1) : v \notin within[j]
       ELSE -1)

\* A next_hops that takes every out-neighbour not farther from dst.
next_hops_not_farther(net, from, dst) ==
    Bind([v \in 0..(net.nodes - 1) |-> BfsDist(net, dst, v)], LAMBDA dist :
    Bind(SelectSeq(net.links,
                   LAMBDA l : l.from = from /\ dist[l.to] # -1
                                            /\ dist[l.to] <= dist[from]), LAMBDA cands :
       IF from = dst \/ dist[from] = -1 \/ cands = <<>> THEN NoneVal
       ELSE Some([i \in 1..Len(cands) |-> cands[i].to])))

\* RoutingTable::next_hops after ensure_built: the out-neighbours of from, in
\* adj order, whose distance to dst is one less; None when there is none.
next_hops(net, from, dst) ==
    Bind([v \in 0..(net.nodes - 1) |-> BfsDist(net, dst, v)], LAMBDA dist :
    Bind(SelectSeq(net.links,
                   LAMBDA l : l.from = from /\ dist[l.to] = dist[from] - 1), LAMBDA cands :
       IF from = dst \/ dist[from] = -1 \/ cands = <<>> THEN NoneVal
       ELSE Some([i \in 1..Len(cands) |-> cands[i].to])))

\* a ^ b on naturals, bit by bit.
RECURSIVE BitXor(_, _)
BitXor(a, b) ==
    IF a = 0 THEN b
    ELSE IF b = 0 THEN a
    ELSE ((a + b) % 2) + 2 * BitXor(a \div 2, b \div 2)

\* mix64 (splitmix64) on words of 12 bits in place of 64: the constants are
\* the low 12 bits of those of the source and the shifts 30, 27, 31 of 64
\* bits become 6, 5, 6 of 12.
mix64(x0) ==
    Bind((x0 + 3093) % 4096, LAMBDA x :
    Bind((BitXor(x, x \div 64) * 1465) % 4096, LAMBDA z1 :
    Bind((BitXor(z1, z1 \div 32) * 491) % 4096, LAMBDA z2 :
       BitXor(z2, z2 \div 64))))

\* RoutingTable::pick_ecmp_with_key: cands[h % len] for
\* h = mix64(key ^ from * 0x9E37..7C15 ^ dst ^ hash_salt).
pick_ecmp_with_key(hash_salt, from, dst, key, cands) ==
    cands[(mix64(BitXor(BitXor(BitXor(key % 4096, (from * 3093) % 4096), dst),
                        hash_salt)) % Len(cands)) + 1]

\* RoutingTable::pick_ecmp of the routing table of Network::default, whose
\* salt is 0xC5A1_DA7A_5EED_1234 (low 12 bits: 564).
pick_ecmp(from, dst, flow_id, cands) ==
    pick_ecmp_with_key(564, from, dst, flow_id, cands)

\* Network::transmit_next_on_link
transmit_next_on_link(w0, link_id) ==
    Bind(w0, LAMBDA w :
    Bind(dequeue(w.net.links[link_id].queue), LAMBDA d :
       IF d.pkt = NoneVal THEN [w EXCEPT !.net.links[link_id].queue = d.q]
       ELSE LET now == w.sim.now
                link == w.net.links[link_id]
                pkt == d.pkt.some
            IN Bind(now + tx_time(link, pkt.size_bytes), LAMBDA depart :
               Bind([w.net EXCEPT !.links[link_id].queue = d.q,
                                  !.links[link_id].busy_until = depart], LAMBDA n1 :
               Bind(viz_push(n1, "TxStart", now, pkt,
                             [link_from |-> link.from, link_to |-> link.to,
                              depart_ns |-> depart,
                              arrive_ns |-> depart + link.latency]), LAMBDA n2 :
               Bind(schedule(w.sim, depart + link.latency,
                             [kind |-> "DeliverPacket", to |-> link.to,
                              pkt |-> advance(pkt)]), LAMBDA s1 :
               Bind(schedule(s1, depart, [kind |-> "LinkReady", link_id |-> link_id]),
                    LAMBDA s2 : [w EXCEPT !.sim = s2, !.net = n2])))))))

\* Packet::mark_ce_if_ect
mark_ce_if_ect(pkt) == IF pkt.ecn = "Ect0" THEN [pkt EXCEPT !.ecn = "Ce"] ELSE pkt

\* Network::set_link_ecn_threshold_bytes
set_link_ecn_threshold_bytes(net, from, to, threshold_bytes) ==
    [net EXCEPT !.links[EdgeLink(net, from, to)].ecn_threshold_bytes =
                    Some(threshold_bytes)]

\* An ECN step that compares the bytes queued alone with the threshold.
ecn_mark_queued_only(link, pkt) ==
    IF link.ecn_threshold_bytes # NoneVal
          /\ bytes(link.queue) > link.ecn_threshold_bytes.some
    THEN mark_ce_if_ect(pkt)
    ELSE pkt

\* The ECN step of forward_from: with a threshold configured on the link and
\* the bytes queued plus the packet's size above it, mark_ce_if_ect.
ecn_mark(link, pkt) ==
    IF link.ecn_threshold_bytes # NoneVal
          /\ bytes(link.queue) + pkt.size_bytes > link.ecn_threshold_bytes.some
    THEN mark_ce_if_ect(pkt)
    ELSE pkt

\* A forward_from that starts a transmission whenever a packet was queued.
forward_from_eager(w0, from, pkt0) ==
    Bind(w0, LAMBDA w :
    Bind(pkt0, LAMBDA pkt :
    Bind(IF preset_next(pkt) # NoneVal THEN preset_next(pkt).some
         ELSE pick_ecmp(from, pkt.dst, pkt.flow_id,
                        next_hops(w.net, from, pkt.dst).some), LAMBDA to :
    Bind(viz_push(w.net, "NodeForward", w.sim.now, pkt, [node |-> from, next |-> to]),
         LAMBDA n1 :
    Bind(EdgeLink(n1, from, to), LAMBDA link_id :
    Bind(enqueue(n1.links[link_id].queue, ecn_mark(n1.links[link_id], pkt)), LAMBDA r :
    Bind([link_from |-> from, link_to |-> to, q_bytes |-> bytes(r.q),
          q_cap_bytes |-> capacity_bytes(r.q)], LAMBDA qx :
    Bind([n1 EXCEPT !.links[link_id].queue = r.q], LAMBDA n2 :
       IF r.err # NoneVal
       THEN [w EXCEPT !.net = viz_push(
                [n2 EXCEPT !.stats.dropped_pkts = n2.stats.dropped_pkts + 1,
                           !.stats.dropped_bytes =
                               n2.stats.dropped_bytes + r.err.some.size_bytes],
                "Drop", w.sim.now, r.err.some, qx)]
       ELSE Bind([w EXCEPT !.net = viz_push(n2, "Enqueue", w.sim.now, pkt, qx)],
                 LAMBDA w3 : transmit_next_on_link(w3, link_id))))))))))

\* A forward_from that tells the TCP sender of a drop.
forward_from_notify(w0, from, pkt0) ==
    Bind(w0, LAMBDA w :
    Bind(pkt0, LAMBDA pkt :
    Bind(IF preset_next(pkt) # NoneVal THEN preset_next(pkt).some
         ELSE pick_ecmp(from, pkt.dst, pkt.flow_id,
                        next_hops(w.net, from, pkt.dst).some), LAMBDA to :
    Bind(viz_push(w.net, "NodeForward", w.sim.now, pkt, [node |-> from, next |-> to]),
         LAMBDA n1 :
    Bind(EdgeLink(n1, from, to), LAMBDA link_id :
    Bind(enqueue(n1.links[link_id].queue, ecn_mark(n1.links[link_id], pkt)), LAMBDA r :
    Bind([link_from |-> from, link_to |-> to, q_bytes |-> bytes(r.q),
          q_cap_bytes |-> capacity_bytes(r.q)], LAMBDA qx :
    Bind([n1 EXCEPT !.links[link_id].queue = r.q], LAMBDA n2 :
       IF r.err # NoneVal
       THEN [w EXCEPT !.net = viz_push(
                [n2 EXCEPT !.stats.dropped_pkts = n2.stats.dropped_pkts + 1,
                           !.stats.dropped_bytes =
                               n2.stats.dropped_bytes + r.err.some.size_bytes],
                "Drop", w.sim.now, r.err.some, qx),
                      !.net.tcp.conns =
                          [id \in DOMAIN w.net.tcp.conns |->
                              IF id = pkt.flow_id
                              THEN [w.net.tcp.conns[id] EXCEPT !.dup_acks = @ + 1]
                              ELSE w.net.tcp.conns[id]]]
       ELSE Bind([w EXCEPT !.net = viz_push(n2, "Enqueue", w.sim.now, pkt, qx)],
                 LAMBDA w3 :
               IF w3.sim.now >= w3.net.links[link_id].busy_until
               THEN transmit_next_on_link(w3, link_id)
               ELSE w3)))))))))

\* A forward_from that hashes the packet id with the flow id.
forward_from_packet_key(w0, from, pkt0) ==
    Bind(w0, LAMBDA w :
    Bind(pkt0, LAMBDA pkt :
    Bind(IF preset_next(pkt) # NoneVal THEN preset_next(pkt).some
         ELSE pick_ecmp(from, pkt.dst, BitXor(pkt.flow_id, pkt.id),
                        next_hops(w.net, from, pkt.dst).some), LAMBDA to :
    Bind(viz_push(w.net, "NodeForward", w.sim.now, pkt, [node |-> from, next |-> to]),
         LAMBDA n1 :
    Bind(EdgeLink(n1, from, to), LAMBDA link_id :
    Bind(enqueue(n1.links[link_id].queue, ecn_mark(n1.links[link_id], pkt)), LAMBDA r :
    Bind([link_from |-> from, link_to |-> to, q_bytes |-> bytes(r.q),
          q_cap_bytes |-> capacity_bytes(r.q)], LAMBDA qx :
    Bind([n1 EXCEPT !.links[link_id].queue = r.q], LAMBDA n2 :
       IF r.err # NoneVal
       THEN [w EXCEPT !.net = viz_push(
                [n2 EXCEPT !.stats.dropped_pkts = n2.stats.dropped_pkts + 1,
                           !.stats.dropped_bytes =
                               n2.stats.dropped_bytes + r.err.some.size_bytes],
                "Drop", w.sim.now, r.err.some, qx)]
       ELSE Bind([w EXCEPT !.net = viz_push(n2, "Enqueue", w.sim.now, pkt, qx)],
                 LAMBDA w3 :
               IF w3.sim.now >= w3.net.links[link_id].busy_until
               THEN transmit_next_on_link(w3, link_id)
               ELSE w3)))))))))

\* Network::forward_from
forward_from(w0, from, pkt0) ==
    Bind(w0, LAMBDA w :
    Bind(pkt0, LAMBDA pkt :
    Bind(IF preset_next(pkt) # NoneVal THEN preset_next(pkt).some
         ELSE pick_ecmp(from, pkt.dst, pkt.flow_id,
                        next_hops(w.net, from, pkt.dst).some), LAMBDA to :
    Bind(viz_push(w.net, "NodeForward", w.sim.now, pkt, [node |-> from, next |-> to]),
         LAMBDA n1 :
    Bind(EdgeLink(n1, from, to), LAMBDA link_id :
    Bind(enqueue(n1.links[link_id].queue, ecn_mark(n1.links[link_id], pkt)), LAMBDA r :
    Bind([link_from |-> from, link_to |-> to, q_bytes |-> bytes(r.q),
          q_cap_bytes |-> capacity_bytes(r.q)], LAMBDA qx :
    Bind([n1 EXCEPT !.links[link_id].queue = r.q], LAMBDA n2 :
       IF r.err # NoneVal
       THEN [w EXCEPT !.net = viz_push(
                [n2 EXCEPT !.stats.dropped_pkts = n2.stats.dropped_pkts + 1,
                           !.stats.dropped_bytes =
                               n2.stats.dropped_bytes + r.err.some.size_bytes],
                "Drop", w.sim.now, r.err.some, qx)]
       ELSE Bind([w EXCEPT !.net = viz_push(n2, "Enqueue", w.sim.now, pkt, qx)],
                 LAMBDA w3 :
               IF w3.sim.now >= w3.net.links[link_id].busy_until
               THEN transmit_next_on_link(w3, link_id)
               ELSE w3)))))))))

\* An on_link_ready that also returns at the very time the link gets free.
on_link_ready_strict(w0, link_id) ==
    Bind(w0, LAMBDA w :
    IF w.net.links[link_id].busy_until >= w.sim.now THEN w
    ELSE transmit_next_on_link(w, link_id))

\* Network::on_link_ready
on_link_ready(w0, link_id) ==
    Bind(w0, LAMBDA w :
    IF w.net.links[link_id].busy_until > w.sim.now THEN w
    ELSE transmit_next_on_link(w, link_id))

(***************************************************************************)
(* src/src/proto/tcp.rs. The u64 fields are updated with saturating_add /  *)
(* saturating_mul; the values of this model stay far below 2^64, where     *)
(* they are + and *. saturating_sub is Max(0, a - b).                      *)
(***************************************************************************)
\* Network::viz_tcp_send_data / viz_tcp_send_ack / viz_tcp_recv_ack /
\* viz_tcp_rto: an event of a connection; x holds seq, len or ack.
viz_tcp(net, kind, t_ns, conn_id, x) ==
    [net EXCEPT !.viz = Append(net.viz,
        [kind |-> kind, t_ns |-> t_ns, flow_id |-> conn_id, x |-> x])]

\* TcpConn::new
TcpConnNew(id, src, dst, fwd_route, total_bytes, cfg) ==
    [id |-> id, src |-> src, dst |-> dst, fwd_route |-> fwd_route,
     rev_route |-> [i \in 1..Len(fwd_route) |-> fwd_route[Len(fwd_route) + 1 - i]],
     total_bytes |-> total_bytes, cfg |-> cfg, routing_mode |-> "Preset",
     next_seq |-> 0, last_acked |-> 0,
     cwnd_bytes |-> Max(cfg.init_cwnd_bytes, cfg.mss),
     ssthresh_bytes |-> Max(cfg.init_ssthresh_bytes, cfg.mss),
     dup_acks |-> 0, rto |-> cfg.init_rto, rto_deadline |-> NoneVal, rto_token |-> 0,
     srtt |-> NoneVal, rttvar |-> 0, inflight |-> <<>>, recover |-> 0,
     in_fast_recovery |-> FALSE, rcv_nxt |-> 0, out_of_order |-> <<>>,
     sender_state |-> IF cfg.handshake THEN "SynSent" ELSE "Established",
     receiver_state |-> IF cfg.handshake THEN "Idle" ELSE "Established",
     syn_sent_at |-> NoneVal, syn_retries |-> 0,
     start_at |-> NoneVal, done_at |-> NoneVal]

\* TcpConn::new_dynamic
TcpConnNewDynamic(id, src, dst, total_bytes, cfg) ==
    [TcpConnNew(id, src, dst, <<>>, total_bytes, cfg) EXCEPT !.routing_mode = "Dynamic"]

\* TcpConn::bytes_acked
bytes_acked(conn) == Min(conn.last_acked, conn.total_bytes)

\* TcpConn::earliest_unacked_seq: the first key of the BTreeMap.
earliest_unacked_seq(conn) ==
    IF DOMAIN conn.inflight = {} THEN NoneVal
    ELSE Some(CHOOSE s \in DOMAIN conn.inflight : \A t \in DOMAIN conn.inflight : s <= t)

\* TcpConn::make_data_packet
make_data_packet(conn, net) ==
    IF conn.routing_mode = "Preset"
    THEN make_packet(net, conn.id, conn.cfg.mss, conn.fwd_route)
    ELSE make_packet_dynamic(net, conn.id, conn.cfg.mss, conn.src, conn.dst)

\* TcpConn::make_ack_packet
make_ack_packet(conn, net) ==
    IF conn.routing_mode = "Preset"
    THEN make_packet(net, conn.id, conn.cfg.ack_bytes, conn.rev_route)
    ELSE make_packet_dynamic(net, conn.id, conn.cfg.ack_bytes, conn.dst, conn.src)

\* TcpConn::inflight_bytes
RECURSIVE SumLen(_, _)
SumLen(m, keys) ==
    IF keys = {} THEN 0
    ELSE LET k == CHOOSE k \in keys : TRUE IN m[k].len + SumLen(m, keys \ {k})
inflight_bytes(conn) == SumLen(conn.inflight, DOMAIN conn.inflight)

\* TcpConn::effective_cwnd
effective_cwnd(conn) ==
    IF conn.cfg.app_limited_pps = NoneVal \/ conn.srtt = NoneVal THEN conn.cwnd_bytes
    ELSE LET rtt_ns == Max(conn.srtt.some, 1)
             pkts == (conn.cfg.app_limited_pps.some * rtt_ns) \div 1000000000
             limit == pkts * conn.cfg.mss
         IN IF limit > 0 THEN Min(conn.cwnd_bytes, limit) ELSE conn.cwnd_bytes

\* TcpConn::update_rto_with_sample
update_rto_with_sample(conn, sample) ==
    LET diff == IF conn.srtt = NoneVal THEN 0
                ELSE IF sample >= conn.srtt.some THEN sample - conn.srtt.some
                ELSE conn.srtt.some - sample
        rttvar == IF conn.srtt = NoneVal THEN sample \div 2
                  ELSE ((conn.rttvar * 3) \div 4) + (diff \div 4)
        srtt == IF conn.srtt = NoneVal THEN sample
                ELSE ((conn.srtt.some * 7) \div 8) + (sample \div 8)
        rto == Min(Max(srtt + rttvar * 4, conn.cfg.min_rto), conn.cfg.max_rto)
    IN [conn EXCEPT !.srtt = Some(srtt), !.rttvar = rttvar, !.rto = rto]

\* A schedule_rto that keeps the token of the timer it replaces.
schedule_rto_same_token(w0, id) ==
    Bind(w0, LAMBDA w :
    Bind(w.sim.now + w.net.tcp.conns[id].rto, LAMBDA deadline :
    Bind(w.net.tcp.conns[id].rto_token, LAMBDA token :
       [w EXCEPT !.net.tcp.conns[id].rto_deadline = Some(deadline),
                 !.net.tcp.conns[id].rto_token = token,
                 !.sim = schedule(w.sim, deadline,
                             [kind |-> "TcpRto", conn_id |-> id, token |-> token])])))

\* TcpConn::schedule_rto
schedule_rto(w0, id) ==
    Bind(w0, LAMBDA w :
    Bind(w.sim.now + w.net.tcp.conns[id].rto, LAMBDA deadline :
    Bind(w.net.tcp.conns[id].rto_token + 1, LAMBDA token :
       [w EXCEPT !.net.tcp.conns[id].rto_deadline = Some(deadline),
                 !.net.tcp.conns[id].rto_token = token,
                 !.sim = schedule(w.sim, deadline,
                             [kind |-> "TcpRto", conn_id |-> id, token |-> token])])))

\* TcpConn::ensure_rto
ensure_rto(w0, id) ==
    Bind(w0, LAMBDA w :
       LET conn == w.net.tcp.conns[id]
       IN IF conn.rto_deadline # NoneVal THEN w
          ELSE IF conn.syn_sent_at # NoneVal \/ DOMAIN conn.inflight # {}
          THEN schedule_rto(w, id)
          ELSE w)

\* TcpConn::restart_rto
restart_rto(w0, id) ==
    Bind(w0, LAMBDA w :
       LET conn == w.net.tcp.conns[id]
       IN IF conn.syn_sent_at # NoneVal \/ DOMAIN conn.inflight # {}
          THEN schedule_rto(w, id)
          ELSE [w EXCEPT !.net.tcp.conns[id].rto_deadline = NoneVal])

\* TcpConn::stop_rto
stop_rto(conn) == [conn EXCEPT !.rto_deadline = NoneVal]

\* A receiver that moves rcv_nxt to the end of any segment at or ahead of it.
recv_data_skip(conn, seq, ln) ==
    IF seq >= conn.rcv_nxt THEN [conn EXCEPT !.rcv_nxt = seq + ln] ELSE conn

\* A receiver that keeps no segment that arrives ahead of rcv_nxt.
recv_data_no_buffer(conn, seq, ln) ==
    IF seq = conn.rcv_nxt THEN [conn EXCEPT !.rcv_nxt = conn.rcv_nxt + ln] ELSE conn

\* TcpConn::recv_data: the while loop that drains out_of_order.
RECURSIVE DrainOutOfOrder(_)
DrainOutOfOrder(conn0) ==
    Bind(conn0, LAMBDA conn :
       IF conn.rcv_nxt \in DOMAIN conn.out_of_order
       THEN DrainOutOfOrder(
               [conn EXCEPT !.rcv_nxt = conn.rcv_nxt + conn.out_of_order[conn.rcv_nxt],
                            !.out_of_order =
                                [k \in DOMAIN conn.out_of_order \ {conn.rcv_nxt}
                                    |-> conn.out_of_order[k]]])
       ELSE conn)

\* TcpConn::recv_data: the connection it leaves; its result is the rcv_nxt
\* of that connection. entry(seq).or_insert(len) keeps an entry already there.
recv_data(conn, seq, ln) ==
    IF seq = conn.rcv_nxt
    THEN DrainOutOfOrder([conn EXCEPT !.rcv_nxt = conn.rcv_nxt + ln])
    ELSE IF seq > conn.rcv_nxt
    THEN [conn EXCEPT !.out_of_order = conn.out_of_order @@ (seq :> ln)]
    ELSE conn

\* The SYN of send_data_if_possible and of TcpRto::execute: a data packet of
\* ack_bytes with the Syn segment, sent from conn.src.
TcpSendSyn(w0, id) ==
    Bind(w0, LAMBDA w :
    Bind(make_data_packet(w.net.tcp.conns[id], w.net), LAMBDA mp :
       LET conn == w.net.tcp.conns[id]
           pkt == [mp.pkt EXCEPT !.size_bytes = conn.cfg.ack_bytes, !.transport = TcpSyn]
           c1 == [conn EXCEPT !.syn_sent_at = Some(w.sim.now),
                              !.syn_retries = conn.syn_retries + 1]
       IN forward_from([w EXCEPT !.net = [mp.net EXCEPT !.tcp.conns[id] = c1]],
                       conn.src, pkt)))

\* A send loop that cuts a segment to the window and not to the bytes left.
RECURSIVE TcpSendLoopWholeMss(_, _, _)
TcpSendLoopWholeMss(w0, id, avail0) ==
    Bind(w0, LAMBDA w :
    Bind(avail0, LAMBDA avail :
    Bind(w.net.tcp.conns[id], LAMBDA conn :
    Bind(Min(conn.cfg.mss, avail), LAMBDA ln :
       IF ~(avail > 0 /\ conn.next_seq < conn.total_bytes) \/ ln = 0 THEN w
       ELSE Bind(make_data_packet(conn, w.net), LAMBDA mp :
            LET seq == conn.next_seq
                pkt == [mp.pkt EXCEPT !.size_bytes = conn.cfg.mss,
                                      !.transport = TcpData(seq, ln)]
                n1 == viz_tcp(mp.net, "TcpSendData", w.sim.now, id,
                              [seq |-> seq, len |-> ln])
                c1 == [conn EXCEPT !.next_seq = seq + ln,
                                   !.inflight = (seq :> [len |-> ln, sent_at |-> w.sim.now,
                                                         retransmitted |-> FALSE])
                                                  @@ conn.inflight]
            IN TcpSendLoopWholeMss(
                  forward_from([w EXCEPT !.net = [n1 EXCEPT !.tcp.conns[id] = c1]],
                               conn.src, pkt),
                  id, Max(0, avail - ln)))))))

\* The while loop of TcpStack::send_data_if_possible.
RECURSIVE TcpSendLoop(_, _, _)
TcpSendLoop(w0, id, avail0) ==
    Bind(w0, LAMBDA w :
    Bind(avail0, LAMBDA avail :
    Bind(w.net.tcp.conns[id], LAMBDA conn :
    Bind(Min(Min(conn.cfg.mss, conn.total_bytes - conn.next_seq), avail), LAMBDA ln :
       IF ~(avail > 0 /\ conn.next_seq < conn.total_bytes) \/ ln = 0 THEN w
       ELSE Bind(make_data_packet(conn, w.net), LAMBDA mp :
            LET seq == conn.next_seq
                pkt == [mp.pkt EXCEPT !.size_bytes = conn.cfg.mss,
                                      !.transport = TcpData(seq, ln)]
                n1 == viz_tcp(mp.net, "TcpSendData", w.sim.now, id,
                              [seq |-> seq, len |-> ln])
                c1 == [conn EXCEPT !.next_seq = seq + ln,
                                   !.inflight = (seq :> [len |-> ln, sent_at |-> w.sim.now,
                                                         retransmitted |-> FALSE])
                                                  @@ conn.inflight]
            IN TcpSendLoop(
                  forward_from([w EXCEPT !.net = [n1 EXCEPT !.tcp.conns[id] = c1]],
                               conn.src, pkt),
                  id, Max(0, avail - ln)))))))

\* A send_data_if_possible that does not wait for the handshake.
send_data_if_possible_any_state(w0, id) ==
    Bind(w0, LAMBDA w :
       IF id \notin DOMAIN w.net.tcp.conns THEN w
       ELSE LET conn == w.net.tcp.conns[id]
                started == IF conn.start_at = NoneVal
                           THEN [w EXCEPT !.net.tcp.conns[id].start_at = Some(w.sim.now)]
                           ELSE w
            IN IF conn.done_at # NoneVal THEN w
               ELSE ensure_rto(
                       TcpSendLoop(started, id,
                           Max(0, effective_cwnd(conn) - inflight_bytes(conn))), id))

\* TcpStack::send_data_if_possible
send_data_if_possible(w0, id) ==
    Bind(w0, LAMBDA w :
       IF id \notin DOMAIN w.net.tcp.conns THEN w
       ELSE LET conn == w.net.tcp.conns[id]
                started == IF conn.start_at = NoneVal
                           THEN [w EXCEPT !.net.tcp.conns[id].start_at = Some(w.sim.now)]
                           ELSE w
            IN IF conn.done_at # NoneVal THEN w
               ELSE IF conn.sender_state # "Established"
               THEN ensure_rto(IF conn.syn_sent_at = NoneVal
                               THEN TcpSendSyn(started, id) ELSE w, id)
               ELSE ensure_rto(
                       TcpSendLoop(started, id,
                           Max(0, effective_cwnd(conn) - inflight_bytes(conn))), id))

\* TcpStack::start_conn (and TcpStart::execute): insert, send_data_if_possible.
start_conn(w0, conn) ==
    Bind(w0, LAMBDA w :
       send_data_if_possible(
           [w EXCEPT !.net.tcp.conns = (conn.id :> conn) @@ w.net.tcp.conns], conn.id))

\* TcpStack::send_ack
send_ack(w0, id, ack) ==
    Bind(w0, LAMBDA w :
    Bind(make_ack_packet(w.net.tcp.conns[id], w.net), LAMBDA mp :
       LET conn == w.net.tcp.conns[id]
           pkt == [mp.pkt EXCEPT !.size_bytes = conn.cfg.ack_bytes,
                                 !.transport = TcpAck(ack)]
           n1 == viz_tcp(mp.net, "TcpSendAck", w.sim.now, id, [ack |-> ack])
       IN forward_from([w EXCEPT !.net = n1], conn.dst, pkt)))

\* The retransmission of the earliest unacknowledged segment, as it is written
\* out in the partial-ACK branch, in the third-dupACK branch and in
\* TcpRto::execute: send Data { seq0, len }, then mark the segment.
TcpRetransmit(w0, id, seq0) ==
    Bind(w0, LAMBDA w :
    Bind(make_data_packet(w.net.tcp.conns[id], w.net), LAMBDA mp :
       LET conn == w.net.tcp.conns[id]
           pkt == [mp.pkt EXCEPT !.size_bytes = conn.cfg.mss,
                                 !.transport = TcpData(seq0, conn.inflight[seq0].len)]
       IN Bind(forward_from([w EXCEPT !.net = mp.net], conn.src, pkt), LAMBDA w1 :
             [w1 EXCEPT !.net.tcp.conns[id].inflight[seq0].sent_at = w.sim.now,
                        !.net.tcp.conns[id].inflight[seq0].retransmitted = TRUE])))

\* The call of a done callback cb(conn_id, now, sim). The closures of the
\* drivers of this model record the call in the state they captured.
call_done_callback(w0, cb, conn_id) ==
    Bind(w0, LAMBDA w :
       [w EXCEPT !.drv.done_calls = Append(w.drv.done_calls,
                    [conn_id |-> conn_id, at |-> w.sim.now, cb |-> cb])])

\* An ACK that takes no segment out of inflight.
TcpCoveredNone(conn, ack) == {}

\* The keys of inflight the loops over inflight.iter() reach before their
\* break: the leading segments that end at or before ack.
TcpCovered(conn, ack) ==
    {s \in DOMAIN conn.inflight :
        \A t \in DOMAIN conn.inflight : t <= s => t + conn.inflight[t].len <= ack}

\* on_tcp_segment, Ack with ack > last_acked: RTT sample, removal of the
\* acknowledged segments, window update.
TcpNewAckWindow(w0, id, ack) ==
    Bind(w0, LAMBDA w :
    Bind(w.net.tcp.conns[id], LAMBDA conn :
    Bind(TcpCovered(conn, ack), LAMBDA covered :
    Bind({s \in covered : ~conn.inflight[s].retransmitted}, LAMBDA fresh :
    Bind(IF fresh = {} THEN conn
         ELSE update_rto_with_sample(conn,
                 Max(0, w.sim.now
                          - conn.inflight[CHOOSE s \in fresh : \A t \in fresh : t <= s].sent_at)),
         LAMBDA c1 :
    Bind([c1 EXCEPT !.dup_acks = 0,
                    !.inflight = [k \in DOMAIN c1.inflight \ covered |-> c1.inflight[k]],
                    !.last_acked = ack], LAMBDA c2 :
    Bind([w EXCEPT !.net.tcp.conns[id] = c2], LAMBDA w2 :
       LET newly_acked == ack - conn.last_acked
           mss == conn.cfg.mss
       IN IF c2.in_fast_recovery
          THEN IF ack >= c2.recover
               THEN [w2 EXCEPT !.net.tcp.conns[id].cwnd_bytes =
                                   Min(c2.ssthresh_bytes, Max(0, c2.next_seq - ack) + mss),
                               !.net.tcp.conns[id].in_fast_recovery = FALSE]
               ELSE Bind([w2 EXCEPT !.net.tcp.conns[id].cwnd_bytes =
                                   (IF newly_acked < c2.cwnd_bytes
                                    THEN c2.cwnd_bytes - newly_acked ELSE 0) + mss],
                         LAMBDA w3 :
                       IF earliest_unacked_seq(c2) # NoneVal
                       THEN TcpRetransmit(w3, id, earliest_unacked_seq(c2).some)
                       ELSE w3)
          ELSE IF c2.cwnd_bytes < c2.ssthresh_bytes
          THEN [w2 EXCEPT !.net.tcp.conns[id].cwnd_bytes = c2.cwnd_bytes + newly_acked]
          ELSE [w2 EXCEPT !.net.tcp.conns[id].cwnd_bytes =
                              c2.cwnd_bytes + Max((mss * mss) \div c2.cwnd_bytes, 1)])))))))

\* A completion test that also completes a connection that is already done.
TcpNewAckAlwaysDone(w0, id, ack) ==
    Bind(w0, LAMBDA w :
    Bind(TcpNewAckWindow(w, id, ack), LAMBDA w1 :
    Bind(w1.net.tcp.conns[id], LAMBDA conn :
       IF conn.last_acked >= conn.total_bytes \/ conn.last_acked > 0
       THEN Bind([w1 EXCEPT !.net.tcp.conns[id] =
                                stop_rto([conn EXCEPT !.done_at = Some(w.sim.now)]),
                            !.net.tcp.done_callbacks =
                                [k \in DOMAIN w1.net.tcp.done_callbacks \ {id}
                                    |-> w1.net.tcp.done_callbacks[k]]], LAMBDA w2 :
               IF id \in DOMAIN w1.net.tcp.done_callbacks
               THEN call_done_callback(w2, w1.net.tcp.done_callbacks[id], id)
               ELSE w2)
       ELSE send_data_if_possible(restart_rto(w1, id), id))))

\* A TcpNewAck that calls the done callback and leaves its entry registered.
TcpNewAckKeepCallback(w0, id, ack) ==
    Bind(w0, LAMBDA w :
    Bind(TcpNewAckWindow(w, id, ack), LAMBDA w1 :
    Bind(w1.net.tcp.conns[id], LAMBDA conn :
       IF conn.last_acked >= conn.total_bytes /\ conn.done_at = NoneVal
       THEN Bind([w1 EXCEPT !.net.tcp.conns[id] =
                                stop_rto([conn EXCEPT !.done_at = Some(w.sim.now)])],
                 LAMBDA w2 :
               IF id \in DOMAIN w1.net.tcp.done_callbacks
               THEN call_done_callback(w2, w1.net.tcp.done_callbacks[id], id)
               ELSE w2)
       ELSE send_data_if_possible(restart_rto(w1, id), id))))

\* on_tcp_segment, Ack with ack > last_acked.
TcpNewAck(w0, id, ack) ==
    Bind(w0, LAMBDA w :
    Bind(TcpNewAckWindow(w, id, ack), LAMBDA w1 :
    Bind(w1.net.tcp.conns[id], LAMBDA conn :
       IF conn.last_acked >= conn.total_bytes /\ conn.done_at = NoneVal
       THEN Bind([w1 EXCEPT !.net.tcp.conns[id] =
                                stop_rto([conn EXCEPT !.done_at = Some(w.sim.now)]),
                            !.net.tcp.done_callbacks =
                                [k \in DOMAIN w1.net.tcp.done_callbacks \ {id}
                                    |-> w1.net.tcp.done_callbacks[k]]], LAMBDA w2 :
               IF id \in DOMAIN w1.net.tcp.done_callbacks
               THEN call_done_callback(w2, w1.net.tcp.done_callbacks[id], id)
               ELSE w2)
       ELSE send_data_if_possible(restart_rto(w1, id), id))))

\* on_tcp_segment, Ack with ack = last_acked: a duplicate ACK.
TcpDupAck(w0, id) ==
    Bind(w0, LAMBDA w :
    Bind(w.net.tcp.conns[id], LAMBDA conn :
       LET mss == conn.cfg.mss
           dup == conn.dup_acks + 1
           ssthresh == Max(conn.cwnd_bytes \div 2, 2 * mss)
       IN IF conn.in_fast_recovery
          THEN send_data_if_possible(
                  [w EXCEPT !.net.tcp.conns[id].cwnd_bytes = conn.cwnd_bytes + mss], id)
          ELSE Bind([w EXCEPT !.net.tcp.conns[id].dup_acks = dup], LAMBDA w1 :
               IF dup = 3
               THEN IF conn.last_acked < conn.recover THEN w1
                    ELSE Bind([w1 EXCEPT !.net.tcp.conns[id].ssthresh_bytes = ssthresh],
                              LAMBDA w2 :
                         Bind(IF earliest_unacked_seq(conn) # NoneVal
                              THEN TcpRetransmit(w2, id, earliest_unacked_seq(conn).some)
                              ELSE w2, LAMBDA w3 :
                            send_data_if_possible(
                               [w3 EXCEPT !.net.tcp.conns[id].cwnd_bytes = ssthresh + 3 * mss,
                                          !.net.tcp.conns[id].in_fast_recovery = TRUE,
                                          !.net.tcp.conns[id].recover = conn.next_seq], id)))
               ELSE IF dup > 3
               THEN send_data_if_possible(
                       [w1 EXCEPT !.net.tcp.conns[id].cwnd_bytes = conn.cwnd_bytes + mss], id)
               ELSE w1)))

\* TcpStack::on_tcp_segment
on_tcp_segment(w0, conn_id, at, seg) ==
    Bind(w0, LAMBDA w :
    IF conn_id \notin DOMAIN w.net.tcp.conns THEN w
    ELSE Bind(w.net.tcp.conns[conn_id], LAMBDA conn :
            CASE seg.seg = "Syn" ->
                   IF at # conn.dst THEN w
                   ELSE Bind(IF conn.receiver_state = "Idle"
                             THEN [conn EXCEPT !.receiver_state = "SynReceived"]
                             ELSE conn, LAMBDA c1 :
                        Bind(make_ack_packet(c1, w.net), LAMBDA mp :
                           forward_from(
                              [w EXCEPT !.net = [mp.net EXCEPT !.tcp.conns[conn_id] = c1]],
                              conn.dst,
                              [mp.pkt EXCEPT !.size_bytes = conn.cfg.ack_bytes,
                                             !.transport = TcpSynAck])))
              [] seg.seg = "SynAck" ->
                   IF at # conn.src THEN w
                   ELSE Bind(stop_rto([conn EXCEPT !.sender_state = "Established",
                                                   !.syn_sent_at = NoneVal,
                                                   !.syn_retries = 0]), LAMBDA c1 :
                        Bind(make_data_packet(c1, w.net), LAMBDA mp :
                           send_data_if_possible(
                              IF conn.cfg.handshake
                              THEN forward_from(
                                      [w EXCEPT !.net = [mp.net EXCEPT
                                                            !.tcp.conns[conn_id] = c1]],
                                      conn.src,
                                      [mp.pkt EXCEPT !.size_bytes = conn.cfg.ack_bytes,
                                                     !.transport = TcpHandshakeAck])
                              ELSE [w EXCEPT !.net.tcp.conns[conn_id] = c1],
                              conn_id)))
              [] seg.seg = "HandshakeAck" ->
                   IF at # conn.dst THEN w
                   ELSE [w EXCEPT !.net.tcp.conns[conn_id].receiver_state = "Established"]
              [] seg.seg = "Data" ->
                   IF at # conn.dst THEN w
                   ELSE IF conn.cfg.handshake /\ conn.receiver_state = "Idle" THEN w
                   ELSE Bind(recv_data(conn, seg.seq, seg.len), LAMBDA c1 :
                           send_ack([w EXCEPT !.net.tcp.conns[conn_id] = c1],
                                    conn_id, c1.rcv_nxt))
              [] seg.seg = "Ack" ->
                   IF at # conn.src THEN w
                   ELSE Bind([w EXCEPT !.net =
                                 viz_tcp(w.net, "TcpRecvAck", w.sim.now, conn_id,
                                         [ack |-> seg.ack])], LAMBDA w1 :
                           IF seg.ack > conn.last_acked THEN TcpNewAck(w1, conn_id, seg.ack)
                           ELSE IF seg.ack = conn.last_acked THEN TcpDupAck(w1, conn_id)
                           ELSE w1)))

\* A TcpRto that treats every timer as stale.
TcpRtoExecuteStale(w0, conn_id, token) ==
    Bind(w0, LAMBDA w :
    IF conn_id \notin DOMAIN w.net.tcp.conns THEN w
    ELSE [w EXCEPT !.net.tcp.conns[conn_id].rto_deadline =
                       w.net.tcp.conns[conn_id].rto_deadline])

\* A TcpRto that checks neither its token nor the stored deadline.
TcpRtoExecuteUnchecked(w0, conn_id, token) ==
    Bind(w0, LAMBDA w :
    IF conn_id \notin DOMAIN w.net.tcp.conns THEN w
    ELSE Bind(w.net.tcp.conns[conn_id], LAMBDA conn :
         Bind(Min(Max(conn.rto * 2, conn.cfg.min_rto), conn.cfg.max_rto), LAMBDA backoff :
         Bind([w EXCEPT !.net.tcp.conns[conn_id].rto_deadline = NoneVal], LAMBDA w1 :
         Bind(earliest_unacked_seq(conn), LAMBDA seq0 :
            LET mss == conn.cfg.mss
                cwnd0 == IF conn.in_fast_recovery
                         THEN Min(conn.ssthresh_bytes,
                                  Max(0, conn.next_seq - conn.last_acked) + mss)
                         ELSE conn.cwnd_bytes
            IN IF conn.done_at # NoneVal THEN w
               ELSE IF conn.sender_state # "Established"
               THEN IF conn.syn_sent_at # NoneVal
                    THEN schedule_rto(
                            TcpSendSyn([w1 EXCEPT !.net.tcp.conns[conn_id].rto = backoff],
                                       conn_id), conn_id)
                    ELSE w1
               ELSE IF seq0 = NoneVal THEN w1
               ELSE schedule_rto(
                       TcpRetransmit(
                          [w1 EXCEPT
                             !.net = viz_tcp(
                                 [w1.net EXCEPT
                                     !.tcp.conns[conn_id].ssthresh_bytes =
                                         Max(cwnd0 \div 2, 2 * mss),
                                     !.tcp.conns[conn_id].cwnd_bytes = mss,
                                     !.tcp.conns[conn_id].dup_acks = 0,
                                     !.tcp.conns[conn_id].in_fast_recovery = FALSE,
                                     !.tcp.conns[conn_id].recover = conn.next_seq,
                                     !.tcp.conns[conn_id].rto = backoff],
                                 "TcpRto", w.sim.now, conn_id, [seq |-> seq0.some])],
                          conn_id, seq0.some),
                       conn_id))))))

\* A TcpRto whose backoff is not capped at max_rto.
TcpRtoExecuteNoCap(w0, conn_id, token) ==
    Bind(w0, LAMBDA w :
    IF conn_id \notin DOMAIN w.net.tcp.conns THEN w
    ELSE Bind(w.net.tcp.conns[conn_id], LAMBDA conn :
         Bind(Max(conn.rto * 2, conn.cfg.min_rto), LAMBDA backoff :
         Bind([w EXCEPT !.net.tcp.conns[conn_id].rto_deadline = NoneVal], LAMBDA w1 :
         Bind(earliest_unacked_seq(conn), LAMBDA seq0 :
            LET mss == conn.cfg.mss
                cwnd0 == IF conn.in_fast_recovery
                         THEN Min(conn.ssthresh_bytes,
                                  Max(0, conn.next_seq - conn.last_acked) + mss)
                         ELSE conn.cwnd_bytes
            IN IF conn.done_at # NoneVal THEN w
               ELSE IF conn.rto_deadline = NoneVal \/ conn.rto_token # token THEN w
               ELSE IF w.sim.now < conn.rto_deadline.some THEN w
               ELSE IF conn.sender_state # "Established"
               THEN IF conn.syn_sent_at # NoneVal
                    THEN schedule_rto(
                            TcpSendSyn([w1 EXCEPT !.net.tcp.conns[conn_id].rto = backoff],
                                       conn_id), conn_id)
                    ELSE w1
               ELSE IF seq0 = NoneVal THEN w1
               ELSE schedule_rto(
                       TcpRetransmit(
                          [w1 EXCEPT
                             !.net = viz_tcp(
                                 [w1.net EXCEPT
                                     !.tcp.conns[conn_id].ssthresh_bytes =
                                         Max(cwnd0 \div 2, 2 * mss),
                                     !.tcp.conns[conn_id].cwnd_bytes = mss,
                                     !.tcp.conns[conn_id].dup_acks = 0,
                                     !.tcp.conns[conn_id].in_fast_recovery = FALSE,
                                     !.tcp.conns[conn_id].recover = conn.next_seq,
                                     !.tcp.conns[conn_id].rto = backoff],
                                 "TcpRto", w.sim.now, conn_id, [seq |-> seq0.some])],
                          conn_id, seq0.some),
                       conn_id))))))

\* A TcpRto that halves the window of fast recovery as it stands, inflation
\* included.
TcpRtoExecuteInflated(w0, conn_id, token) ==
    Bind(w0, LAMBDA w :
    IF conn_id \notin DOMAIN w.net.tcp.conns THEN w
    ELSE Bind(w.net.tcp.conns[conn_id], LAMBDA conn :
         Bind(Min(Max(conn.rto * 2, conn.cfg.min_rto), conn.cfg.max_rto), LAMBDA backoff :
         Bind([w EXCEPT !.net.tcp.conns[conn_id].rto_deadline = NoneVal], LAMBDA w1 :
         Bind(earliest_unacked_seq(conn), LAMBDA seq0 :
            LET mss == conn.cfg.mss
                cwnd0 == conn.cwnd_bytes
            IN IF conn.done_at # NoneVal THEN w
               ELSE IF conn.rto_deadline = NoneVal \/ conn.rto_token # token THEN w
               ELSE IF w.sim.now < conn.rto_deadline.some THEN w
               ELSE IF conn.sender_state # "Established"
               THEN IF conn.syn_sent_at # NoneVal
                    THEN schedule_rto(
                            TcpSendSyn([w1 EXCEPT !.net.tcp.conns[conn_id].rto = backoff],
                                       conn_id), conn_id)
                    ELSE w1
               ELSE IF seq0 = NoneVal THEN w1
               ELSE schedule_rto(
                       TcpRetransmit(
                          [w1 EXCEPT
                             !.net = viz_tcp(
                                 [w1.net EXCEPT
                                     !.tcp.conns[conn_id].ssthresh_bytes =
                                         Max(cwnd0 \div 2, 2 * mss),
                                     !.tcp.conns[conn_id].cwnd_bytes = mss,
                                     !.tcp.conns[conn_id].dup_acks = 0,
                                     !.tcp.conns[conn_id].in_fast_recovery = FALSE,
                                     !.tcp.conns[conn_id].recover = conn.next_seq,
                                     !.tcp.conns[conn_id].rto = backoff],
                                 "TcpRto", w.sim.now, conn_id, [seq |-> seq0.some])],
                          conn_id, seq0.some),
                       conn_id))))))

\* A TcpRto that halves the window into ssthresh without the floor of two
\* segments.
TcpRtoExecuteNoFloor(w0, conn_id, token) ==
    Bind(w0, LAMBDA w :
    IF conn_id \notin DOMAIN w.net.tcp.conns THEN w
    ELSE Bind(w.net.tcp.conns[conn_id], LAMBDA conn :
         Bind(Min(Max(conn.rto * 2, conn.cfg.min_rto), conn.cfg.max_rto), LAMBDA backoff :
         Bind([w EXCEPT !.net.tcp.conns[conn_id].rto_deadline = NoneVal], LAMBDA w1 :
         Bind(earliest_unacked_seq(conn), LAMBDA seq0 :
            LET mss == conn.cfg.mss
                cwnd0 == IF conn.in_fast_recovery
                         THEN Min(conn.ssthresh_bytes,
                                  Max(0, conn.next_seq - conn.last_acked) + mss)
                         ELSE conn.cwnd_bytes
            IN IF conn.done_at # NoneVal THEN w
               ELSE IF conn.rto_deadline = NoneVal \/ conn.rto_token # token THEN w
               ELSE IF w.sim.now < conn.rto_deadline.some THEN w
               ELSE IF conn.sender_state # "Established"
               THEN IF conn.syn_sent_at # NoneVal
                    THEN schedule_rto(
                            TcpSendSyn([w1 EXCEPT !.net.tcp.conns[conn_id].rto = backoff],
                                       conn_id), conn_id)
                    ELSE w1
               ELSE IF seq0 = NoneVal THEN w1
               ELSE schedule_rto(
                       TcpRetransmit(
                          [w1 EXCEPT
                             !.net = viz_tcp(
                                 [w1.net EXCEPT
                                     !.tcp.conns[conn_id].ssthresh_bytes =
                                         cwnd0 \div 2,
                                     !.tcp.conns[conn_id].cwnd_bytes = mss,
                                     !.tcp.conns[conn_id].dup_acks = 0,
                                     !.tcp.conns[conn_id].in_fast_recovery = FALSE,
                                     !.tcp.conns[conn_id].recover = conn.next_seq,
                                     !.tcp.conns[conn_id].rto = backoff],
                                 "TcpRto", w.sim.now, conn_id, [seq |-> seq0.some])],
                          conn_id, seq0.some),
                       conn_id))))))

\* TcpRto::execute
TcpRtoExecute(w0, conn_id, token) ==
    Bind(w0, LAMBDA w :
    IF conn_id \notin DOMAIN w.net.tcp.conns THEN w
    ELSE Bind(w.net.tcp.conns[conn_id], LAMBDA conn :
         Bind(Min(Max(conn.rto * 2, conn.cfg.min_rto), conn.cfg.max_rto), LAMBDA backoff :
         Bind([w EXCEPT !.net.tcp.conns[conn_id].rto_deadline = NoneVal], LAMBDA w1 :
         Bind(earliest_unacked_seq(conn), LAMBDA seq0 :
            LET mss == conn.cfg.mss
                cwnd0 == IF conn.in_fast_recovery
                         THEN Min(conn.ssthresh_bytes,
                                  Max(0, conn.next_seq - conn.last_acked) + mss)
                         ELSE conn.cwnd_bytes
            IN IF conn.done_at # NoneVal THEN w
               ELSE IF conn.rto_deadline = NoneVal \/ conn.rto_token # token THEN w
               ELSE IF w.sim.now < conn.rto_deadline.some THEN w
               ELSE IF conn.sender_state # "Established"
               THEN IF conn.syn_sent_at # NoneVal
                    THEN schedule_rto(
                            TcpSendSyn([w1 EXCEPT !.net.tcp.conns[conn_id].rto = backoff],
                                       conn_id), conn_id)
                    ELSE w1
               ELSE IF seq0 = NoneVal THEN w1
               ELSE schedule_rto(
                       TcpRetransmit(
                          [w1 EXCEPT
                             !.net = viz_tcp(
                                 [w1.net EXCEPT
                                     !.tcp.conns[conn_id].ssthresh_bytes =
                                         Max(cwnd0 \div 2, 2 * mss),
                                     !.tcp.conns[conn_id].cwnd_bytes = mss,
                                     !.tcp.conns[conn_id].dup_acks = 0,
                                     !.tcp.conns[conn_id].in_fast_recovery = FALSE,
                                     !.tcp.conns[conn_id].recover = conn.next_seq,
                                     !.tcp.conns[conn_id].rto = backoff],
                                 "TcpRto", w.sim.now, conn_id, [seq |-> seq0.some])],
                          conn_id, seq0.some),
                       conn_id))))))

(***************************************************************************)
(* src/src/proto/dctcp.rs. alpha and g are f64 in the program; the model   *)
(* holds them as exact fractions [n, d] in lowest terms.                   *)
(***************************************************************************)
RECURSIVE Gcd(_, _)
Gcd(a, b) == IF b = 0 THEN a ELSE Gcd(b, a % b)
Frac(n, d) == IF n = 0 THEN [n |-> 0, d |-> 1] ELSE [n |-> n \div Gcd(n, d), d |-> d \div Gcd(n, d)]

\* DctcpConn::new
DctcpConnNew(id, src, dst, fwd_route, total_bytes, cfg) ==
    [id |-> id, src |-> src, dst |-> dst, fwd_route |-> fwd_route,
     rev_route |-> [i \in 1..Len(fwd_route) |-> fwd_route[Len(fwd_route) + 1 - i]],
     total_bytes |-> total_bytes, cfg |-> cfg,
     next_seq |-> 0, last_acked |-> 0,
     cwnd_bytes |-> Max(cfg.init_cwnd_bytes, cfg.mss),
     ssthresh_bytes |-> Max(cfg.init_ssthresh_bytes, cfg.mss),
     dup_acks |-> 0, rto |-> cfg.init_rto, inflight |-> <<>>,
     alpha |-> Frac(0, 1), window_end |-> Max(cfg.init_cwnd_bytes, cfg.mss),
     acked_in_window |-> 0, marked_in_window |-> 0, cwnd_log |-> NoneVal,
     rcv_nxt |-> 0, start_at |-> NoneVal, done_at |-> NoneVal]

\* DctcpConn::record_cwnd followed by Network::viz_dctcp_cwnd, as every
\* caller pairs them.
dctcp_record_cwnd(w0, id) ==
    Bind(w0, LAMBDA w :
    Bind(w.net.dctcp.conns[id], LAMBDA conn :
       LET sample == [t_ns |-> w.sim.now, cwnd_bytes |-> conn.cwnd_bytes,
                      ssthresh_bytes |-> conn.ssthresh_bytes, alpha |-> conn.alpha,
                      acked_bytes |-> conn.last_acked]
           c1 == IF conn.cwnd_log = NoneVal THEN conn
                 ELSE [conn EXCEPT !.cwnd_log = Some(Append(conn.cwnd_log.some, sample))]
       IN [w EXCEPT !.net = viz_tcp([w.net EXCEPT !.dctcp.conns[id] = c1], "DctcpCwnd",
                                    w.sim.now, id,
                                    [cwnd |-> conn.cwnd_bytes,
                                     ssthresh |-> conn.ssthresh_bytes,
                                     inflight |-> inflight_bytes(conn),
                                     alpha |-> conn.alpha])]))

\* The data packet of a DCTCP connection: make_packet along fwd_route, size
\* mss, Data { seq, len }, ECT(0).
DctcpDataPacket(conn, net, seq, ln) ==
    Bind(make_packet(net, conn.id, conn.cfg.mss, conn.fwd_route), LAMBDA mp :
       [net |-> mp.net,
        pkt |-> [mp.pkt EXCEPT !.size_bytes = conn.cfg.mss,
                               !.transport = DctcpData(seq, ln), !.ecn = "Ect0"]])

\* The while loop of DctcpStack::send_data_if_possible.
RECURSIVE DctcpSendLoop(_, _, _)
DctcpSendLoop(w0, id, avail0) ==
    Bind(w0, LAMBDA w :
    Bind(avail0, LAMBDA avail :
    Bind(w.net.dctcp.conns[id], LAMBDA conn :
    Bind(Min(Min(conn.cfg.mss, conn.total_bytes - conn.next_seq), avail), LAMBDA ln :
       IF ~(avail > 0 /\ conn.next_seq < conn.total_bytes) \/ ln = 0 THEN w
       ELSE Bind(DctcpDataPacket(conn, w.net, conn.next_seq, ln), LAMBDA mp :
            Bind([conn EXCEPT !.next_seq = conn.next_seq + ln,
                              !.inflight = (conn.next_seq :> [len |-> ln]) @@ conn.inflight],
                 LAMBDA c1 :
            LET seq == conn.next_seq
                n1 == viz_tcp(mp.net, "TcpSendData", w.sim.now, id,
                              [seq |-> seq, len |-> ln])
                s1 == IF earliest_unacked_seq(c1) = Some(seq)
                      THEN schedule(w.sim, w.sim.now + conn.rto,
                                    [kind |-> "DctcpRto", conn_id |-> id, seq |-> seq])
                      ELSE w.sim
            IN DctcpSendLoop(
                  forward_from([w EXCEPT !.sim = s1,
                                         !.net = [n1 EXCEPT !.dctcp.conns[id] = c1]],
                               conn.src, mp.pkt),
                  id, Max(0, avail - ln))))))))

\* DctcpStack::send_data_if_possible
dctcp_send_data_if_possible(w0, id) ==
    Bind(w0, LAMBDA w :
    IF id \notin DOMAIN w.net.dctcp.conns THEN w
    ELSE LET conn == w.net.dctcp.conns[id]
             started == IF conn.start_at = NoneVal
                        THEN [w EXCEPT !.net.dctcp.conns[id].start_at = Some(w.sim.now)]
                        ELSE w
         IN IF conn.done_at # NoneVal THEN w
            ELSE DctcpSendLoop(started, id,
                               Max(0, conn.cwnd_bytes - inflight_bytes(conn))))

\* DctcpStack::start_conn (and DctcpStart::execute)
dctcp_start_conn(w0, conn) ==
    Bind(w0, LAMBDA w :
    dctcp_send_data_if_possible(
        dctcp_record_cwnd(
            [w EXCEPT !.net.dctcp.conns = (conn.id :> conn) @@ w.net.dctcp.conns],
            conn.id),
        conn.id))

\* A send_ack that never echoes CE.
dctcp_send_ack_no_echo(w0, id, ack, ecn_echo) ==
    Bind(w0, LAMBDA w :
    Bind(w.net.dctcp.conns[id], LAMBDA conn :
    Bind(make_packet(w.net, conn.id, conn.cfg.ack_bytes, conn.rev_route), LAMBDA mp :
       LET pkt == [mp.pkt EXCEPT !.size_bytes = conn.cfg.ack_bytes,
                                 !.transport = DctcpAck(ack, FALSE)]
           n1 == viz_tcp(mp.net, "TcpSendAck", w.sim.now, id, [ack |-> ack])
       IN forward_from([w EXCEPT !.net = n1], conn.dst, pkt))))

\* DctcpStack::send_ack
dctcp_send_ack(w0, id, ack, ecn_echo) ==
    Bind(w0, LAMBDA w :
    Bind(w.net.dctcp.conns[id], LAMBDA conn :
    Bind(make_packet(w.net, conn.id, conn.cfg.ack_bytes, conn.rev_route), LAMBDA mp :
       LET pkt == [mp.pkt EXCEPT !.size_bytes = conn.cfg.ack_bytes,
                                 !.transport = DctcpAck(ack, ecn_echo)]
           n1 == viz_tcp(mp.net, "TcpSendAck", w.sim.now, id, [ack |-> ack])
       IN forward_from([w EXCEPT !.net = n1], conn.dst, pkt))))

\* A window rule that cuts cwnd at every window boundary, marks or not.
DctcpNewAckWindowAlways(conn0, ack, ecn_echo) ==
    Bind(conn0, LAMBDA conn :
    Bind(ack - conn.last_acked, LAMBDA newly_acked :
    Bind([conn EXCEPT !.dup_acks = 0, !.last_acked = ack], LAMBDA c0 :
    Bind(TcpCovered(c0, ack), LAMBDA covered :
    Bind([c0 EXCEPT
            !.inflight = [k \in DOMAIN c0.inflight \ covered |-> c0.inflight[k]],
            !.acked_in_window = c0.acked_in_window + newly_acked,
            !.marked_in_window = IF ecn_echo THEN c0.marked_in_window + newly_acked
                                 ELSE c0.marked_in_window], LAMBDA c1 :
    Bind(LET g == conn.cfg.g
             fm == IF c1.acked_in_window = 0 THEN 0 ELSE c1.marked_in_window
             fa == IF c1.acked_in_window = 0 THEN 1 ELSE c1.acked_in_window
         IN Frac((g.d - g.n) * c1.alpha.n * fa + g.n * fm * c1.alpha.d,
                 g.d * c1.alpha.d * fa), LAMBDA alpha :
    Bind(IF TRUE
         THEN Max(Max((c1.cwnd_bytes * (2 * alpha.d - alpha.n)) \div (2 * alpha.d),
                      conn.cfg.mss), conn.cfg.mss)
         ELSE c1.cwnd_bytes, LAMBDA cwnd2 :
    Bind(IF c1.last_acked >= c1.window_end
         THEN [c1 EXCEPT !.alpha = alpha, !.cwnd_bytes = cwnd2,
                         !.acked_in_window = 0, !.marked_in_window = 0,
                         !.window_end = c1.last_acked + cwnd2]
         ELSE c1, LAMBDA c2 :
       LET mss == conn.cfg.mss
       IN IF c2.cwnd_bytes < c2.ssthresh_bytes
          THEN [c2 EXCEPT !.cwnd_bytes = c2.cwnd_bytes + newly_acked]
          ELSE [c2 EXCEPT !.cwnd_bytes =
                              c2.cwnd_bytes + Max((mss * mss) \div c2.cwnd_bytes, 1)]))))))))

\* on_dctcp_segment, Ack with ack > last_acked, up to the window update.
DctcpNewAckWindow(conn0, ack, ecn_echo) ==
    Bind(conn0, LAMBDA conn :
    Bind(ack - conn.last_acked, LAMBDA newly_acked :
    Bind([conn EXCEPT !.dup_acks = 0, !.last_acked = ack], LAMBDA c0 :
    Bind(TcpCovered(c0, ack), LAMBDA covered :
    Bind([c0 EXCEPT
            !.inflight = [k \in DOMAIN c0.inflight \ covered |-> c0.inflight[k]],
            !.acked_in_window = c0.acked_in_window + newly_acked,
            !.marked_in_window = IF ecn_echo THEN c0.marked_in_window + newly_acked
                                 ELSE c0.marked_in_window], LAMBDA c1 :
    Bind(LET g == conn.cfg.g
             fm == IF c1.acked_in_window = 0 THEN 0 ELSE c1.marked_in_window
             fa == IF c1.acked_in_window = 0 THEN 1 ELSE c1.acked_in_window
         IN Frac((g.d - g.n) * c1.alpha.n * fa + g.n * fm * c1.alpha.d,
                 g.d * c1.alpha.d * fa), LAMBDA alpha :
    Bind(IF c1.marked_in_window > 0
         THEN Max(Max((c1.cwnd_bytes * (2 * alpha.d - alpha.n)) \div (2 * alpha.d),
                      conn.cfg.mss), conn.cfg.mss)
         ELSE c1.cwnd_bytes, LAMBDA cwnd2 :
    Bind(IF c1.last_acked >= c1.window_end
         THEN [c1 EXCEPT !.alpha = alpha, !.cwnd_bytes = cwnd2,
                         !.acked_in_window = 0, !.marked_in_window = 0,
                         !.window_end = c1.last_acked + cwnd2]
         ELSE c1, LAMBDA c2 :
       LET mss == conn.cfg.mss
       IN IF c2.cwnd_bytes < c2.ssthresh_bytes
          THEN [c2 EXCEPT !.cwnd_bytes = c2.cwnd_bytes + newly_acked]
          ELSE [c2 EXCEPT !.cwnd_bytes =
                              c2.cwnd_bytes + Max((mss * mss) \div c2.cwnd_bytes, 1)]))))))))

\* on_dctcp_segment, Ack with ack > last_acked.
DctcpNewAck(w0, id, ack, ecn_echo) ==
    Bind(w0, LAMBDA w :
    Bind(DctcpNewAckWindow(w.net.dctcp.conns[id], ack, ecn_echo), LAMBDA c1 :
    Bind(dctcp_record_cwnd([w EXCEPT !.net.dctcp.conns[id] = c1], id), LAMBDA w1 :
       IF c1.last_acked >= c1.total_bytes /\ c1.done_at = NoneVal
       THEN Bind([w1 EXCEPT !.net.dctcp.conns[id].done_at = Some(w.sim.now),
                            !.net.dctcp.done_callbacks =
                                [k \in DOMAIN w1.net.dctcp.done_callbacks \ {id}
                                    |-> w1.net.dctcp.done_callbacks[k]]], LAMBDA w2 :
               IF id \in DOMAIN w1.net.dctcp.done_callbacks
               THEN call_done_callback(w2, w1.net.dctcp.done_callbacks[id], id)
               ELSE w2)
       ELSE dctcp_send_data_if_possible(w1, id))))

\* on_dctcp_segment, Ack with ack = last_acked.
DctcpDupAck(w0, id) ==
    Bind(w0, LAMBDA w :
    Bind(w.net.dctcp.conns[id], LAMBDA conn :
    Bind([w EXCEPT !.net.dctcp.conns[id].dup_acks = conn.dup_acks + 1], LAMBDA w1 :
    Bind(earliest_unacked_seq(conn), LAMBDA seq0 :
       LET mss == conn.cfg.mss
           dup == conn.dup_acks + 1
           ssthresh == Max(conn.cwnd_bytes \div 2, 2 * mss)
       IN IF dup = 3
          THEN IF seq0 = NoneVal THEN w1
               ELSE Bind(DctcpDataPacket(conn, w.net, seq0.some,
                                         conn.inflight[seq0.some].len), LAMBDA mp :
                       forward_from(
                          [w1 EXCEPT !.net = [mp.net EXCEPT
                               !.dctcp.conns[id].dup_acks = dup,
                               !.dctcp.conns[id].ssthresh_bytes = ssthresh,
                               !.dctcp.conns[id].cwnd_bytes = ssthresh + 3 * mss]],
                          conn.src, mp.pkt))
          ELSE IF dup > 3
          THEN dctcp_send_data_if_possible(
                  dctcp_record_cwnd(
                     [w1 EXCEPT !.net.dctcp.conns[id].cwnd_bytes = conn.cwnd_bytes + mss],
                     id),
                  id)
          ELSE w1))))

\* DctcpStack::on_dctcp_segment
on_dctcp_segment(w0, conn_id, at, seg, ecn) ==
    Bind(w0, LAMBDA w :
    IF conn_id \notin DOMAIN w.net.dctcp.conns THEN w
    ELSE LET conn == w.net.dctcp.conns[conn_id]
         IN IF seg.seg = "Data"
            THEN IF at # conn.dst THEN w
                 ELSE LET rcv == IF seg.seq = conn.rcv_nxt THEN conn.rcv_nxt + seg.len
                                 ELSE conn.rcv_nxt
                      IN dctcp_send_ack([w EXCEPT !.net.dctcp.conns[conn_id].rcv_nxt = rcv],
                                        conn_id, rcv, ecn = "Ce")
            ELSE IF at # conn.src THEN w
                 ELSE Bind([w EXCEPT !.net =
                               viz_tcp(w.net, "TcpRecvAck", w.sim.now, conn_id,
                                       [ack |-> seg.ack])], LAMBDA w1 :
                         IF seg.ack > conn.last_acked
                         THEN DctcpNewAck(w1, conn_id, seg.ack, seg.ecn_echo)
                         ELSE IF seg.ack = conn.last_acked THEN DctcpDupAck(w1, conn_id)
                         ELSE w1))

\* DctcpRto::execute
DctcpRtoExecute(w0, conn_id, seq) ==
    Bind(w0, LAMBDA w :
    Bind([w EXCEPT !.net = viz_tcp(w.net, "TcpRto", w.sim.now, conn_id, [seq |-> seq])],
         LAMBDA wv :
       IF conn_id \notin DOMAIN w.net.dctcp.conns THEN wv
       ELSE Bind(w.net.dctcp.conns[conn_id], LAMBDA conn :
            IF conn.done_at # NoneVal THEN wv
            ELSE IF earliest_unacked_seq(conn) # Some(seq) THEN wv
            ELSE Bind(Min(conn.rto * 2, conn.cfg.max_rto), LAMBDA rto :
                 Bind(dctcp_record_cwnd(
                         [wv EXCEPT !.net.dctcp.conns[conn_id].ssthresh_bytes =
                                        Max(conn.cwnd_bytes \div 2, 2 * conn.cfg.mss),
                                    !.net.dctcp.conns[conn_id].cwnd_bytes = conn.cfg.mss,
                                    !.net.dctcp.conns[conn_id].dup_acks = 0,
                                    !.net.dctcp.conns[conn_id].rto = rto], conn_id),
                      LAMBDA w1 :
                 Bind(DctcpDataPacket(conn, w1.net, seq, conn.inflight[seq].len),
                      LAMBDA mp :
                 Bind(forward_from([w1 EXCEPT !.net = mp.net], conn.src, mp.pkt),
                      LAMBDA w2 :
                    [w2 EXCEPT !.sim = schedule(w2.sim, w.sim.now + rto,
                                  [kind |-> "DctcpRto", conn_id |-> conn_id,
                                   seq |-> seq])])))))))

(***************************************************************************)
(* src/src/net: delivery of a packet to a node and the events of the       *)
(* network world.                                                          *)
(***************************************************************************)
\* An on_delivered that leaves delivered_bytes as it was.
on_delivered_no_bytes(w0, at, pkt) ==
    Bind(w0, LAMBDA w :
    Bind(viz_push(w.net, "Delivered", w.sim.now, pkt, [node |-> at]), LAMBDA n1 :
    Bind([w EXCEPT !.net = [n1 EXCEPT
             !.stats.delivered_pkts = n1.stats.delivered_pkts + 1]], LAMBDA w1 :
       IF pkt.transport.proto = "Tcp"
       THEN on_tcp_segment(w1, pkt.flow_id, at, pkt.transport)
       ELSE IF pkt.transport.proto = "Dctcp"
       THEN on_dctcp_segment(w1, pkt.flow_id, at, pkt.transport, pkt.ecn)
       ELSE w1)))

\* Network::on_delivered
on_delivered(w0, at, pkt) ==
    Bind(w0, LAMBDA w :
    Bind(viz_push(w.net, "Delivered", w.sim.now, pkt, [node |-> at]), LAMBDA n1 :
    Bind([w EXCEPT !.net = [n1 EXCEPT
             !.stats.delivered_pkts = n1.stats.delivered_pkts + 1,
             !.stats.delivered_bytes = n1.stats.delivered_bytes + pkt.size_bytes]],
         LAMBDA w1 :
       IF pkt.transport.proto = "Tcp"
       THEN on_tcp_segment(w1, pkt.flow_id, at, pkt.transport)
       ELSE IF pkt.transport.proto = "Dctcp"
       THEN on_dctcp_segment(w1, pkt.flow_id, at, pkt.transport, pkt.ecn)
       ELSE w1)))

\* Network::deliver, with Host::on_packet / Switch::on_packet
deliver(w0, to, pkt) ==
    Bind(w0, LAMBDA w :
    Bind(viz_push(viz_push(w.net, "ArriveNode", w.sim.now, pkt, [node |-> to]),
                  "NodeRx", w.sim.now, pkt, [node |-> to]), LAMBDA n2 :
       IF to # pkt.dst THEN forward_from([w EXCEPT !.net = n2], to, pkt)
       ELSE on_delivered([w EXCEPT !.net = n2], to, pkt)))

\* Event::execute of the events of a network world.
NetEventExecute(w0, item) ==
    Bind(w0, LAMBDA w :
       LET ev == item.ev
       IN CASE ev.kind = "DeliverPacket" -> deliver(w, ev.to, ev.pkt)
            [] ev.kind = "LinkReady" -> on_link_ready(w, ev.link_id)
            [] ev.kind = "ScheduleDeliver" ->
                 [w EXCEPT !.sim = schedule(w.sim, ev.at,
                                      [kind |-> "DeliverPacket", to |-> ev.to,
                                       pkt |-> ev.pkt])]
            [] ev.kind = "TcpRto" -> TcpRtoExecute(w, ev.conn_id, ev.token)
            [] ev.kind = "DctcpRto" -> DctcpRtoExecute(w, ev.conn_id, ev.seq))

(***************************************************************************)
(* The events of src/src/test/simulator.rs, run on a DummyWorld.           *)
(***************************************************************************)
\* Push::execute: log.push(id)
PushExecute(s, d, item) ==
    [sim |-> s,
     dummy |-> [d EXCEPT !.log = Append(d.log,
                   [id |-> item.ev.id, at |-> item.at, seq |-> item.seq,
                    now |-> s.now, nseq |-> s.next_seq])]]

\* PushThenScheduleNow::execute: log.push(id); sim.schedule(sim.now(), Push)
PushThenScheduleNowExecute(s, d, item) ==
    LET r == PushExecute(s, d, item)
    IN [r EXCEPT !.sim = schedule(r.sim, r.sim.now,
                     [kind |-> "Push", id |-> item.ev.next_id, at |-> 0, next_id |-> 0])]

\* An event that schedules its successor at a time stored in the event, as
\* ScheduleDeliver does: sim.schedule(self.at, ...). The stored time may be
\* earlier than the time the event runs at.
PushThenScheduleAtExecute(s, d, item) ==
    LET r == PushExecute(s, d, item)
    IN [r EXCEPT !.sim = schedule(r.sim, item.ev.at,
                     [kind |-> "Push", id |-> item.ev.next_id, at |-> 0, next_id |-> 0])]

\* Event::execute of the test events.
TestEventExecute(s, d, item) ==
    CASE item.ev.kind = "Push" -> PushExecute(s, d, item)
      [] item.ev.kind = "PushThenScheduleNow" -> PushThenScheduleNowExecute(s, d, item)
      [] item.ev.kind = "PushThenScheduleAt" -> PushThenScheduleAtExecute(s, d, item)

\* DummyWorld::on_tick
on_tick(d) == [d EXCEPT !.ticks = d.ticks + 1]

TestEvents ==
    [kind : {"Push"}, id : {0}, at : {0}, next_id : {0}]
      \cup [kind : {"PushThenScheduleNow"}, id : {0}, at : {0}, next_id : {1}]
      \cup [kind : {"PushThenScheduleAt"}, id : {0}, at : 0..MaxTime, next_id : {1}]

(***************************************************************************)
(* The kernel specification: a driver that makes schedule calls and then   *)
(* calls Simulator::run, which pops and dispatches until the heap is empty.*)
(***************************************************************************)
Init ==
    /\ sim = SimulatorDefault
    /\ drv = [pc |-> "setup"]
    /\ dummy = [ticks |-> 0, log |-> <<>>]
    /\ tq = NoneVal
    /\ qlast = NoneVal
    /\ network = NoneVal
    /\ dispatched = 0
    /\ rx = NoneVal
    /\ packet = NoneVal
    /\ ring = NoneVal

\* The driver calls sim.schedule(at, ev) before the run.
ScheduleCall ==
    /\ drv.pc = "setup"
    /\ sim.next_seq < MaxEvents
    /\ \E at \in 0..MaxTime, ev \in TestEvents :
          sim' = schedule(sim, at, [ev EXCEPT !.id = sim.next_seq * 2,
                                              !.next_id = sim.next_seq * 2 + 1])
    /\ UNCHANGED <<unitVars, drv, dummy, queueVars, netVars>>

\* The driver calls sim.run(world).
RunCall ==
    /\ drv.pc = "setup"
    /\ drv' = [pc |-> "run"]
    /\ UNCHANGED <<unitVars, sim, dummy, queueVars, netVars>>

\* One iteration of the loop of Simulator::run: pop, set now, execute, on_tick.
RunStep ==
    /\ drv.pc = "run"
    /\ \E item \in sim.q :
          /\ HeapTop(sim.q, item)
          /\ LET s1 == [sim EXCEPT !.q = sim.q \ {item}, !.now = item.at]
                 r == TestEventExecute(s1, dummy, item)
             IN /\ sim' = r.sim
                /\ dummy' = on_tick(r.dummy)
    /\ UNCHANGED <<unitVars, drv, queueVars, netVars>>

\* The loop of Simulator::run ends: the heap is empty.
RunReturn ==
    /\ drv.pc = "run"
    /\ sim.q = {}
    /\ drv' = [pc |-> "done"]
    /\ UNCHANGED <<unitVars, sim, dummy, queueVars, netVars>>

Next == ScheduleCall \/ RunCall \/ RunStep \/ RunReturn

Spec == Init /\ [][Next]_vars

(***************************************************************************)
(* The run_until specification: a driver that schedules, calls             *)
(* Simulator::run_until up to MaxUntilCalls times, scheduling in between,  *)
(* and ends with Simulator::run.                                           *)
(***************************************************************************)
\* A run_until whose loop stops at the first event at or after `until`.
RunUntilPeekStrict(s, until) ==
    {item \in s.q : HeapTop(s.q, item) /\ item.at < until}

\* The head of the loop of Simulator::run_until: the event it pops next, if
\* the heap has one and its top is not after `until`.
RunUntilPeek(s, until) ==
    {item \in s.q : HeapTop(s.q, item) /\ ~(item.at > until)}

InitUntil ==
    /\ sim = SimulatorDefault
    /\ drv = [pc |-> "setup", calls |-> 0]
    /\ dummy = [ticks |-> 0, log |-> <<>>]
    /\ tq = NoneVal
    /\ qlast = NoneVal
    /\ network = NoneVal
    /\ dispatched = 0
    /\ rx = NoneVal
    /\ packet = NoneVal
    /\ ring = NoneVal

\* The driver calls sim.run_until(until, world); `from` is the length of the
\* log at the call.
RunUntilCall ==
    /\ drv.pc = "setup"
    /\ drv.calls < MaxUntilCalls
    /\ \E until \in 0..MaxUntil :
          drv' = [pc |-> "run_until", calls |-> drv.calls + 1, until |-> until,
                  from |-> Len(dummy.log)]
    /\ UNCHANGED <<unitVars, sim, dummy, queueVars, netVars>>

\* One iteration of the loop of Simulator::run_until.
RunUntilStep ==
    /\ drv.pc = "run_until"
    /\ \E item \in RunUntilPeek(sim, drv.until) :
          LET s1 == [sim EXCEPT !.q = sim.q \ {item}, !.now = item.at]
              r == TestEventExecute(s1, dummy, item)
          IN /\ sim' = r.sim
             /\ dummy' = on_tick(r.dummy)
    /\ UNCHANGED <<unitVars, drv, queueVars, netVars>>

\* The loop of Simulator::run_until ends, the clock is moved to `until` if
\* it is behind, and the call returns to the driver.
RunUntilReturn ==
    /\ drv.pc = "run_until"
    /\ RunUntilPeek(sim, drv.until) = {}
    /\ sim' = [sim EXCEPT !.now = Max(sim.now, drv.until)]
    /\ drv' = [drv EXCEPT !.pc = "setup"]
    /\ UNCHANGED <<unitVars, dummy, queueVars, netVars>>

NextUntil ==
    \/ ScheduleCall
    \/ RunUntilCall
    \/ RunUntilStep
    \/ RunUntilReturn
    \/ RunCall
    \/ RunStep
    \/ RunReturn

SpecUntil == InitUntil /\ [][NextUntil]_vars

(***************************************************************************)
(* Claims about the kernel.                                                *)
(***************************************************************************)
\* (at, seq) of a before (at, seq) of b.
Before(a, b) == a.at < b.at \/ (a.at = b.at /\ a.seq < b.seq)

\* C1: Simulator.run dispatches in ascending (at, seq): two events that were
\* pending together are dispatched smaller (at, seq) first; among events with
\* equal at the one scheduled first runs first; and an event scheduled for a
\* time runs after every event dispatched or already pending for that time.
C1_DispatchOrder ==
    LET n == Len(dummy.log)
    IN /\ \A i \in 1..n : \A j \in 1..n :
             /\ (i < j /\ dummy.log[j].seq < dummy.log[i].nseq)
                    => Before(dummy.log[i], dummy.log[j])
             /\ (i < j /\ dummy.log[i].at = dummy.log[j].at)
                    => dummy.log[i].seq < dummy.log[j].seq
       /\ \A i \in 1..n : \A p \in sim.q :
             /\ p.seq < dummy.log[i].nseq => Before(dummy.log[i], p)
             /\ p.at = dummy.log[i].at => dummy.log[i].seq < p.seq

\* C1 witness: three events of one time were dispatched, the last of them
\* scheduled by the first while the second was already pending.
C1_Witness ==
    \E i, j, k \in 1..Len(dummy.log) :
        /\ i < j /\ j < k
        /\ dummy.log[i].at = dummy.log[j].at /\ dummy.log[j].at = dummy.log[k].at
        /\ dummy.log[j].seq < dummy.log[i].nseq
        /\ dummy.log[k].seq = dummy.log[i].nseq
        /\ dummy.log[k].id = dummy.log[i].id + 1

\* C2: the value of now() seen by successive dispatched events never
\* decreases.
C2_NowMonotone ==
    \A i \in 1..Len(dummy.log) : \A j \in 1..Len(dummy.log) :
        i < j => dummy.log[i].now <= dummy.log[j].now

(***************************************************************************)
(* The queue specification: src/src/test/queues.rs builds a queue and      *)
(* calls enqueue and dequeue on it with packets of every transport kind.   *)
(***************************************************************************)
\* queues.rs mk_packet / mk_tcp_ack / mk_tcp_data and their DCTCP likes.
QueueTestTransports ==
    {TransportNone, TcpSyn, TcpSynAck, TcpHandshakeAck, TcpData(0, 1), TcpAck(1),
     DctcpData(0, 1), DctcpAck(1, FALSE)}

QueueTestPacket(id, size, tr) ==
    [new_dynamic(id, 0, size, 0, 1) EXCEPT !.transport = tr]

InitQueue ==
    /\ sim = SimulatorDefault
    /\ dummy = NoneVal
    /\ drv = [pc |-> "queue", next_pkt_id |-> 0]
    /\ \E c \in 0..MaxCap : tq \in {PriorityQueueNew(c), DropTailQueueNew(c)}
    /\ qlast = [op |-> "new", arg |-> NoneVal, res |-> NoneVal, before |-> NoneVal]
    /\ network = NoneVal
    /\ dispatched = 0
    /\ rx = NoneVal
    /\ packet = NoneVal
    /\ ring = NoneVal

\* q.enqueue(pkt)
EnqueueCall ==
    /\ drv.next_pkt_id < MaxQPkts
    /\ \E size \in 0..MaxPktSize, tr \in QueueTestTransports :
          LET pkt == QueueTestPacket(drv.next_pkt_id, size, tr)
              r == enqueue(tq, pkt)
          IN /\ tq' = r.q
             /\ qlast' = [op |-> "enqueue", arg |-> Some(pkt), res |-> r.err,
                          before |-> tq]
    /\ drv' = [drv EXCEPT !.next_pkt_id = drv.next_pkt_id + 1]
    /\ UNCHANGED <<unitVars, sim, dummy, netVars>>

\* q.dequeue()
DequeueCall ==
    /\ LET r == dequeue(tq)
       IN /\ tq' = r.q
          /\ qlast' = [op |-> "dequeue", arg |-> NoneVal, res |-> r.pkt,
                       before |-> tq]
    /\ UNCHANGED <<unitVars, sim, dummy, drv, netVars>>

NextQueue == EnqueueCall \/ DequeueCall

SpecQueue == InitQueue /\ [][NextQueue]_vars

(***************************************************************************)
(* Claims about the queues.                                                *)
(***************************************************************************)
\* The packets a queue holds, by class, in queue order.
QueuedPackets(q) == IF q.disc = "Priority" THEN <<q.hi, q.lo>> ELSE <<q.q>>

\* C5: bytes() never exceeds capacity_bytes(); an enqueue with bytes() + size
\* above the capacity returns the packet as the error and leaves len(),
\* bytes() and the queued packets as they were; an enqueue that exactly fills
\* the capacity is accepted and the packet is queued.
C5_CapacityRespected ==
    /\ bytes(tq) <= capacity_bytes(tq)
    /\ qlast.op = "enqueue" =>
          LET b == qlast.before
              pkt == qlast.arg.some
          IN /\ bytes(b) + pkt.size_bytes > capacity_bytes(b) =>
                   /\ qlast.res = Some(pkt)
                   /\ len(tq) = len(b)
                   /\ bytes(tq) = bytes(b)
                   /\ QueuedPackets(tq) = QueuedPackets(b)
             /\ bytes(b) + pkt.size_bytes = capacity_bytes(b) =>
                   /\ qlast.res = NoneVal
                   /\ len(tq) = len(b) + 1
                   /\ bytes(tq) = capacity_bytes(tq)
                   /\ \E i \in 1..Len(QueuedPackets(tq)) :
                         QueuedPackets(tq)[i] = Append(QueuedPackets(b)[i], pkt)

\* C5 witness: a queue that two packets filled exactly has refused a third.
C5_Witness ==
    /\ qlast.op = "enqueue"
    /\ qlast.res # NoneVal
    /\ qlast.arg.some.size_bytes > 0
    /\ len(qlast.before) = 2
    /\ bytes(qlast.before) = capacity_bytes(qlast.before)

\* The high-priority class: TCP Ack, Syn, SynAck, HandshakeAck and DCTCP Ack.
HighClass(pkt) ==
    pkt.transport \in {TcpSyn, TcpSynAck, TcpHandshakeAck}
      \/ (pkt.transport.proto \in {"Tcp", "Dctcp"} /\ pkt.transport.seg = "Ack")

\* C6: PriorityQueue.dequeue returns a queued packet; it returns a
\* low-priority packet only when no high-priority packet is queued; and the
\* packet it returns was enqueued before every other queued packet of its
\* class (packet ids are given in the order of the enqueue calls).
C6_StrictPriorityFifo ==
    (qlast.op = "dequeue" /\ qlast.before.disc = "Priority") =>
        LET b == qlast.before
            all == {b.hi[i] : i \in 1..Len(b.hi)} \cup {b.lo[i] : i \in 1..Len(b.lo)}
            rest == {tq.hi[i] : i \in 1..Len(tq.hi)} \cup {tq.lo[i] : i \in 1..Len(tq.lo)}
        IN IF qlast.res = NoneVal THEN all = {}
           ELSE LET p == qlast.res.some
                IN /\ p \in all
                   /\ rest = all \ {p}
                   /\ ~HighClass(p) => \A o \in all : ~HighClass(o)
                   /\ \A o \in all \ {p} :
                         HighClass(o) = HighClass(p) => p.id < o.id

\* C6 witness: a high-priority packet left the queue ahead of a bulk packet
\* enqueued before it, and ahead of a second high-priority packet enqueued
\* after it.
C6_Witness ==
    /\ qlast.op = "dequeue"
    /\ qlast.before.disc = "Priority"
    /\ qlast.res # NoneVal
    /\ HighClass(qlast.res.some)
    /\ \E i \in 1..Len(qlast.before.lo) : qlast.before.lo[i].id < qlast.res.some.id
    /\ Len(qlast.before.hi) >= 2

(***************************************************************************)
(* The network specification: a driver builds a line of nodes as           *)
(* src/src/test/tcp_rto.rs and src/src/test/network_integration.rs do      *)
(* (hosts at both ends, links both ways), makes its calls (a connection    *)
(* started, packets scheduled for delivery at the first host) and calls    *)
(* Simulator::run on the NetWorld.                                         *)
(***************************************************************************)
MaxNodes == 3        \* nodes of the longest line
MaxCalls == 2        \* driver calls before the run
MaxSimTime == 2000   \* run steps are taken up to this time (ns)

\* add_host for each node of the line.
RECURSIVE AddHosts(_, _)
AddHosts(net, n) == IF n = 0 THEN net ELSE add_host(AddHosts(net, n - 1))

\* connect(k, k + 1, ..) and connect(k + 1, k, ..) for each hop: 1 ns of
\* latency, 8 Gbit/s on the first hop and 4 Gbit/s on the others.
RECURSIVE ConnectLine(_, _)
ConnectLine(net, hops) ==
    IF hops = 0 THEN net
    ELSE LET bw == IF hops = 1 THEN 8000 ELSE 4000
             n1 == connect(ConnectLine(net, hops - 1), hops - 1, hops, 1, bw)
         IN connect(n1, hops, hops - 1, 1, bw)

\* set_link_queue_capacity_bytes(from, to, c) for every link connected.
RECURSIVE SetCapacities(_, _, _)
SetCapacities(net, k, c) ==
    IF k = 0 THEN net
    ELSE set_link_queue_capacity_bytes(SetCapacities(net, k - 1, c),
                                       net.links[k].from, net.links[k].to, c)

BuildLine(n, cap) ==
    LET n1 == ConnectLine(AddHosts(NetworkDefault, n), n - 1)
    IN IF cap = NoneVal THEN n1 ELSE SetCapacities(n1, Len(n1.links), cap.some)

LineRoute(n) == [i \in 1..n |-> i - 1]

LineCapacities == {NoneVal, Some(2), Some(4)}

TcpConfigs ==
    [mss : {2}, ack_bytes : {1}, init_cwnd_bytes : {2, 6}, init_ssthresh_bytes : {2000},
     init_rto : {6}, min_rto : {6}, max_rto : {24}, handshake : BOOLEAN,
     app_limited_pps : {NoneVal}]
      \cup [mss : {2}, ack_bytes : {1}, init_cwnd_bytes : {2, 6},
            init_ssthresh_bytes : {2000}, init_rto : {40}, min_rto : {40},
            max_rto : {160}, handshake : BOOLEAN, app_limited_pps : {NoneVal}]

DctcpConfigs ==
    [mss : {2}, ack_bytes : {1}, init_cwnd_bytes : {2, 6}, init_ssthresh_bytes : {2000},
     init_rto : {6, 40}, max_rto : {160}, g : {Frac(1, 16)}]

TotalBytes == {0, 5}
RawTimes == {0, 2}
RawSizes == {2, 3}

TcpConnId == 1
DctcpConnId == TcpConnId + 1

World == [sim |-> sim, net |-> network, drv |-> drv]

InitNet ==
    /\ sim = SimulatorDefault
    /\ \E n \in 2..MaxNodes, cap \in LineCapacities : network = BuildLine(n, cap)
    /\ drv = [pc |-> "setup", calls |-> 0, done_calls |-> <<>>]
    /\ dispatched = 0
    /\ dummy = NoneVal
    /\ tq = NoneVal
    /\ qlast = NoneVal
    /\ rx = NoneVal
    /\ packet = NoneVal
    /\ ring = NoneVal

\* The driver creates a TCP connection between the ends of the line and
\* calls tcp.start_conn(conn, sim, net).
TcpStartCall ==
    /\ drv.pc = "setup"
    /\ drv.calls < MaxCalls
    /\ DOMAIN network.dctcp.conns = {} /\ DOMAIN network.tcp.conns = {}
    /\ \E cfg \in TcpConfigs, total \in TotalBytes :
          \E w \in {start_conn(World,
                       TcpConnNewDynamic(TcpConnId, 0, network.nodes - 1, total, cfg))} :
             /\ sim' = w.sim
             /\ network' = w.net
             /\ drv' = [w.drv EXCEPT !.calls = drv.calls + 1]
    /\ UNCHANGED <<unitVars, dummy, queueVars, dispatched>>

\* The driver creates a DCTCP connection along the line and calls
\* dctcp.start_conn(conn, sim, net).
DctcpStartCall ==
    /\ drv.pc = "setup"
    /\ drv.calls < MaxCalls
    /\ DOMAIN network.dctcp.conns = {} /\ DOMAIN network.tcp.conns = {}
    /\ \E cfg \in DctcpConfigs, total \in TotalBytes :
          \E w \in {dctcp_start_conn(World,
                       DctcpConnNew(DctcpConnId, 0, network.nodes - 1,
                                    LineRoute(network.nodes), total, cfg))} :
             /\ sim' = w.sim
             /\ network' = w.net
             /\ drv' = [w.drv EXCEPT !.calls = drv.calls + 1]
    /\ UNCHANGED <<unitVars, dummy, queueVars, dispatched>>

\* TcpStack::set_done_callback. The callback of a ring transport is the
\* closure that calls the done callback of the flow; cb is what it captured.
tcp_set_done_callback(w, id, cb) ==
    [w EXCEPT !.net.tcp.done_callbacks =
                  (id :> cb) @@ [k \in DOMAIN w.net.tcp.done_callbacks \ {id}
                                    |-> w.net.tcp.done_callbacks[k]]]

\* DctcpStack::set_done_callback
dctcp_set_done_callback(w, id, cb) ==
    [w EXCEPT !.net.dctcp.done_callbacks =
                  (id :> cb) @@ [k \in DOMAIN w.net.dctcp.done_callbacks \ {id}
                                    |-> w.net.dctcp.done_callbacks[k]]]

\* TcpRingTransport::start_flow with RoutingMode::PerPacket
TcpRingTransportStartFlow(w0, flow_id, src, dst, chunk_bytes, cfg, done) ==
    Bind(w0, LAMBDA w :
       start_conn(tcp_set_done_callback(w, flow_id, done),
                  TcpConnNewDynamic(flow_id, src, dst, chunk_bytes, cfg)))

\* DctcpRingTransport::start_flow with RoutingMode::PerFlow; route is the
\* path from src to dst.
DctcpRingTransportStartFlow(w0, flow_id, src, dst, route, chunk_bytes, cfg, done) ==
    Bind(w0, LAMBDA w :
       dctcp_start_conn(dctcp_set_done_callback(w, flow_id, done),
                        DctcpConnNew(flow_id, src, dst, route, chunk_bytes, cfg)))

\* A ring transport starts a TCP flow between the ends of the line:
\* transport.start_flow(flow_id, src, dst, chunk_bytes, routing, sim, world, done).
TcpStartFlowCall ==
    /\ drv.pc = "setup"
    /\ drv.calls < MaxCalls
    /\ DOMAIN network.dctcp.conns = {} /\ DOMAIN network.tcp.conns = {}
    /\ \E cfg \in TcpConfigs, chunk_bytes \in TotalBytes :
          \E w \in {TcpRingTransportStartFlow(World, TcpConnId, 0, network.nodes - 1,
                                              chunk_bytes, cfg, [flow_id |-> TcpConnId])} :
             /\ sim' = w.sim
             /\ network' = w.net
             /\ drv' = [w.drv EXCEPT !.calls = drv.calls + 1]
    /\ UNCHANGED <<unitVars, dummy, queueVars, dispatched>>

\* A ring transport starts a DCTCP flow along the line.
DctcpStartFlowCall ==
    /\ drv.pc = "setup"
    /\ drv.calls < MaxCalls
    /\ DOMAIN network.dctcp.conns = {} /\ DOMAIN network.tcp.conns = {}
    /\ \E cfg \in DctcpConfigs, chunk_bytes \in TotalBytes :
          \E w \in {DctcpRingTransportStartFlow(World, DctcpConnId, 0, network.nodes - 1,
                                                LineRoute(network.nodes), chunk_bytes, cfg,
                                                [flow_id |-> DctcpConnId])} :
             /\ sim' = w.sim
             /\ network' = w.net
             /\ drv' = [w.drv EXCEPT !.calls = drv.calls + 1]
    /\ UNCHANGED <<unitVars, dummy, queueVars, dispatched>>

\* The driver schedules the delivery of a packet of its own at the first
\* host: DeliverPacket at the time at, or ScheduleDeliver at time 0, which
\* schedules that DeliverPacket during the run.
InjectCall ==
    /\ drv.pc = "setup"
    /\ drv.calls < MaxCalls
    /\ \E at \in RawTimes, size \in RawSizes, direct \in BOOLEAN :
          LET pkt == new_dynamic(100 + drv.calls, 100 + drv.calls, size,
                                 0, network.nodes - 1)
              ev == [kind |-> "DeliverPacket", to |-> 0, pkt |-> pkt]
          IN sim' = IF direct THEN schedule(sim, at, ev)
                    ELSE schedule(sim, 0, [kind |-> "ScheduleDeliver", at |-> at,
                                           to |-> 0, pkt |-> pkt])
    /\ drv' = [drv EXCEPT !.calls = drv.calls + 1]
    /\ UNCHANGED <<unitVars, network, dummy, queueVars, dispatched>>

\* The driver calls sim.run(world).
NetRunCall ==
    /\ drv.pc = "setup"
    /\ drv' = [drv EXCEPT !.pc = "run"]
    /\ UNCHANGED <<unitVars, sim, network, dummy, queueVars, dispatched>>

\* One iteration of the loop of Simulator::run on the NetWorld, whose
\* on_tick does nothing.
NetRunStep ==
    /\ drv.pc = "run"
    /\ dispatched' = dispatched + 1
    /\ \E item \in sim.q :
          /\ HeapTop(sim.q, item)
          /\ item.at <= MaxSimTime
          /\ \E w \in {NetEventExecute(
                           [World EXCEPT !.sim = [sim EXCEPT !.q = sim.q \ {item},
                                                             !.now = item.at]], item)} :
                /\ sim' = w.sim
                /\ network' = w.net
                /\ drv' = w.drv
    /\ UNCHANGED <<unitVars, dummy, queueVars>>

\* The loop of Simulator::run ends: the heap is empty.
NetRunReturn ==
    /\ drv.pc = "run"
    /\ sim.q = {}
    /\ drv' = [drv EXCEPT !.pc = "done"]
    /\ UNCHANGED <<unitVars, sim, network, dummy, queueVars, dispatched>>

NextNet ==
    \/ TcpStartCall \/ DctcpStartCall \/ TcpStartFlowCall \/ DctcpStartFlowCall
    \/ InjectCall \/ NetRunCall \/ NetRunStep \/ NetRunReturn

SpecNet == InitNet /\ [][NextNet]_vars

\* What a NetRunStep needs to be taken, and what every NetRunStep does to
\* dispatched.
RunLoopIteration ==
    /\ drv.pc = "run"
    /\ \E item \in sim.q : HeapTop(sim.q, item) /\ item.at <= MaxSimTime
    /\ dispatched' = dispatched + 1

\* Simulator::run keeps popping while the heap holds an event: the loop runs
\* in one thread and every handler returns. The steps of SpecNet that change
\* dispatched are the NetRunSteps, and a NetRunStep is enabled where
\* RunLoopIteration is.
SpecNetFair == InitNet /\ [][NextNet]_vars /\ WF_dispatched(RunLoopIteration)

(***************************************************************************)
(* Claims about the fabric. They read the viz log, which records every     *)
(* NodeForward, Enqueue, Drop, TxStart and Delivered with the packet's id  *)
(* and size; the ids of the packets of a run are distinct.                 *)
(***************************************************************************)
VizIdx(kind) == {i \in DOMAIN network.viz : network.viz[i].kind = kind}

RECURSIVE SumPktBytes(_)
SumPktBytes(S) ==
    IF S = {} THEN 0
    ELSE LET i == CHOOSE i \in S : TRUE
         IN network.viz[i].pkt_bytes + SumPktBytes(S \ {i})

RECURSIVE SumSizes(_)
SumSizes(pkts) == IF pkts = <<>> THEN 0 ELSE Head(pkts).size_bytes + SumSizes(Tail(pkts))

RECURSIVE SumEventSizes(_)
SumEventSizes(S) ==
    IF S = {} THEN 0
    ELSE LET it == CHOOSE it \in S : TRUE
         IN it.ev.pkt.size_bytes + SumEventSizes(S \ {it})

\* The packets held in the queue of a link, as one sequence.
LinkQueued(l) ==
    IF l.queue.disc = "Priority" THEN l.queue.hi \o l.queue.lo ELSE l.queue.q

RECURSIVE QueuedPkts(_)
QueuedPkts(k) ==
    IF k = 0 THEN 0 ELSE Len(LinkQueued(network.links[k])) + QueuedPkts(k - 1)

RECURSIVE QueuedBytes(_)
QueuedBytes(k) ==
    IF k = 0 THEN 0 ELSE SumSizes(LinkQueued(network.links[k])) + QueuedBytes(k - 1)

\* The packets on a wire: sent by a link, their DeliverPacket still pending.
InTransit == {it \in sim.q : it.ev.kind = "DeliverPacket" /\ it.ev.pkt.hops_taken > 0}

\* The first NodeForward of each packet: its injection through forward_from.
Injections ==
    {i \in VizIdx("NodeForward") :
        \A j \in VizIdx("NodeForward") :
            network.viz[j].pkt_id = network.viz[i].pkt_id => i <= j}

\* C3: after every driver call and every event of a run, delivered + dropped
\* + queued on a link + in transit equals what was injected through
\* forward_from, in bytes and in packets; no packet is delivered twice, or
\* dropped twice, or both delivered and dropped, and the counters of the
\* statistics are those of the packets delivered and dropped.
C3_Conservation ==
    LET del == VizIdx("Delivered")
        drp == VizIdx("Drop")
    IN /\ network.stats.delivered_bytes + network.stats.dropped_bytes
             + QueuedBytes(Len(network.links)) + SumEventSizes(InTransit)
          = SumPktBytes(Injections)
       /\ network.stats.delivered_pkts + network.stats.dropped_pkts
             + QueuedPkts(Len(network.links)) + Cardinality(InTransit)
          = Cardinality(Injections)
       /\ \A i, j \in del \cup drp :
             network.viz[i].pkt_id = network.viz[j].pkt_id => i = j
       /\ network.stats.delivered_pkts = Cardinality(del)
       /\ network.stats.delivered_bytes = SumPktBytes(del)
       /\ network.stats.dropped_pkts = Cardinality(drp)
       /\ network.stats.dropped_bytes = SumPktBytes(drp)

\* A state in the middle of a run over a switch where packets were delivered
\* and dropped while others are queued and on a wire.
C3_Witness ==
    /\ drv.pc = "run"
    /\ network.nodes = 3
    /\ network.stats.delivered_pkts > 0
    /\ network.stats.dropped_pkts > 0
    /\ QueuedPkts(Len(network.links)) > 0
    /\ InTransit # {}

\* ceil(nbytes * 8 * 10^9 / bps) for a bandwidth of mbps * 10^6 bit/s: the
\* least t with t * mbps >= nbytes * 8000.
SerializationNs(mbps, nbytes) ==
    CHOOSE t \in 0..(nbytes * 8) :
        /\ t * mbps >= nbytes * 8000
        /\ \A u \in 0..(t - 1) : u * mbps < nbytes * 8000

OnLink(i, l) == network.viz[i].x.link_from = l.from /\ network.viz[i].x.link_to = l.to

\* C4: on every link, a transmission starts at or after the start of every
\* earlier transmission on that link plus the serialization time of the
\* earlier packet; a packet enqueued on the link is either still in its
\* queue or was transmitted on it exactly once, and nothing else was
\* transmitted on it.
C4_NoOverlapOnce ==
    \A k \in DOMAIN network.links :
        LET l == network.links[k]
            tx == {i \in VizIdx("TxStart") : OnLink(i, l)}
            enq == {i \in VizIdx("Enqueue") : OnLink(i, l)}
            held == {LinkQueued(l)[n].id : n \in DOMAIN LinkQueued(l)}
        IN /\ \A i, j \in tx :
                 i < j => network.viz[j].t_ns >=
                            network.viz[i].t_ns
                              + SerializationNs(l.bandwidth_mbps, network.viz[i].pkt_bytes)
           /\ \A i \in enq :
                 LET sent == {j \in tx : network.viz[j].pkt_id = network.viz[i].pkt_id}
                 IN IF network.viz[i].pkt_id \in held
                    THEN sent = {}
                    ELSE Cardinality(sent) = 1 /\ \A j \in sent : j > i
           /\ \A j \in tx : \E i \in enq : network.viz[i].pkt_id = network.viz[j].pkt_id
           /\ Cardinality(held) = Len(LinkQueued(l))

\* The state after forward_from ran before the LinkReady of the same time:
\* a packet arrived at the very time the previous transmission of the link
\* departed and was started at once, the LinkReady of that time is still in
\* the heap.
C4_Witness ==
    \E k \in DOMAIN network.links :
        LET l == network.links[k]
            tx == {i \in VizIdx("TxStart") : OnLink(i, l)}
        IN /\ Cardinality(tx) >= 2
           /\ \E i, j \in tx :
                 /\ i < j
                 /\ j = Len(network.viz)
                 /\ network.viz[i].x.depart_ns = sim.now
                 /\ network.viz[j].t_ns = sim.now
           /\ \E it \in sim.q :
                 it.ev.kind = "LinkReady" /\ it.ev.link_id = k /\ it.at = sim.now

(***************************************************************************)
(* Claims about the connections.                                           *)
(***************************************************************************)
\* The TcpRecvAck events of a connection whose ack covers total_bytes.
CoveringAcks(conn) ==
    {i \in VizIdx("TcpRecvAck") :
        network.viz[i].flow_id = conn.id /\ network.viz[i].x.ack >= conn.total_bytes}

\* done_at is unset until the sender received an ACK that covers
\* total_bytes, and from then on it is the time of the first such ACK,
\* bytes_acked() is total_bytes and start_at is at or before done_at.
DoneAtFirstCoveringAck(conn) ==
    IF CoveringAcks(conn) = {} THEN conn.done_at = NoneVal
    ELSE LET first == CHOOSE i \in CoveringAcks(conn) : \A j \in CoveringAcks(conn) : i <= j
         IN /\ conn.done_at = Some(network.viz[first].t_ns)
            /\ bytes_acked(conn) = conn.total_bytes
            /\ conn.start_at # NoneVal
            /\ conn.start_at.some <= conn.done_at.some

\* C7: in every state, for every TCP and every DCTCP connection, done_at is
\* the time of the first cumulative ACK with ack >= total_bytes the sender
\* received (unset before it, the same ever after), and once set
\* bytes_acked() = total_bytes and start_at <= done_at.
C7_DoneOnce ==
    /\ \A id \in DOMAIN network.tcp.conns : DoneAtFirstCoveringAck(network.tcp.conns[id])
    /\ \A id \in DOMAIN network.dctcp.conns : DoneAtFirstCoveringAck(network.dctcp.conns[id])

\* A TCP connection that completed and later, at another time, received a
\* further ACK that covers total_bytes.
C7_Witness ==
    /\ TcpConnId \in DOMAIN network.tcp.conns
    /\ LET conn == network.tcp.conns[TcpConnId]
       IN /\ conn.done_at # NoneVal
          /\ conn.total_bytes > 0
          /\ \E i \in CoveringAcks(conn) : network.viz[i].t_ns > conn.done_at.some

PathHoldsMssAndAck(conn) ==
    \A k \in DOMAIN network.links :
        /\ capacity_bytes(network.links[k].queue) >= conn.cfg.mss
        /\ capacity_bytes(network.links[k].queue) >= conn.cfg.ack_bytes

TcpCompleted ==
    /\ TcpConnId \in DOMAIN network.tcp.conns
    /\ network.tcp.conns[TcpConnId].done_at # NoneVal
    /\ bytes_acked(network.tcp.conns[TcpConnId]) = network.tcp.conns[TcpConnId].total_bytes

\* C8: once the run is under way, a TCP connection with total_bytes > 0
\* whose links each hold an MSS-size packet and an ACK eventually has
\* done_at set and bytes_acked() = total_bytes, whatever the queues dropped.
C8_TcpCompletes ==
    (/\ drv.pc = "run"
     /\ TcpConnId \in DOMAIN network.tcp.conns
     /\ network.tcp.conns[TcpConnId].total_bytes > 0
     /\ PathHoldsMssAndAck(network.tcp.conns[TcpConnId]))
        ~> TcpCompleted

\* A completed connection whose last data packet of the first flight was
\* dropped at the sender's link while the earlier ones got through (a tail
\* loss), with no duplicate ACK received and an RTO fired after the drop.
C8_Witness ==
    /\ TcpCompleted
    /\ drv.calls = 1
    /\ \E d \in VizIdx("Drop"), r \in VizIdx("TcpRto") :
          /\ network.viz[d].flow_id = TcpConnId
          /\ network.viz[d].t_ns = network.tcp.conns[TcpConnId].start_at.some
          /\ network.viz[r].flow_id = TcpConnId
          /\ d < r
          /\ network.viz[r].x.seq + network.tcp.conns[TcpConnId].cfg.mss
                >= network.tcp.conns[TcpConnId].total_bytes
          /\ \A i, j \in VizIdx("TcpRecvAck") :
                i < j => network.viz[i].x.ack < network.viz[j].x.ack

(***************************************************************************)
(* The receiver specification: the unit test of TcpConn::recv_data, with   *)
(* the segments and their order of arrival drawn from bounded sets.        *)
(***************************************************************************)
MaxSeq == 3
MaxSegLen == 2
MaxArrivals == 4

\* TcpConfig::default()
TcpConfigDefault ==
    [mss |-> 1460, ack_bytes |-> 64, init_cwnd_bytes |-> 14600,
     init_ssthresh_bytes |-> 1460000, init_rto |-> 200000, min_rto |-> 200000,
     max_rto |-> 200000000, handshake |-> FALSE, app_limited_pps |-> NoneVal]

InitRecv ==
    /\ rx = [conn |-> TcpConnNew(1, 0, 1, <<0, 1>>, MaxSeq, TcpConfigDefault),
             arrivals |-> <<>>]
    /\ sim = SimulatorDefault
    /\ drv = [pc |-> "recv"]
    /\ dummy = NoneVal
    /\ tq = NoneVal
    /\ qlast = NoneVal
    /\ network = NoneVal
    /\ dispatched = 0
    /\ ring = NoneVal
    /\ packet = NoneVal

\* conn.recv_data(seq, len)
RecvDataCall ==
    /\ drv.pc = "recv"
    /\ Len(rx.arrivals) < MaxArrivals
    /\ \E seq \in 0..(MaxSeq - 1), ln \in 1..MaxSegLen :
          rx' = [conn |-> recv_data(rx.conn, seq, ln),
                 arrivals |-> Append(rx.arrivals, [seq |-> seq, len |-> ln])]
    /\ UNCHANGED <<ring, packet, sim, drv, dummy, queueVars, netVars>>

NextRecv == RecvDataCall

SpecRecv == InitRecv /\ [][NextRecv]_vars

\* The bytes a segment carries, and the bytes the arrivals carry together.
SegBytes(seg) == seg.seq..(seg.seq + seg.len - 1)
ArrivedBytes == UNION {SegBytes(rx.arrivals[i]) : i \in 1..Len(rx.arrivals)}

\* C9: for a TCP receiver, after any sequence of data-segment arrivals (in
\* order, out of order, duplicated) whose segments together cover [0, B),
\* rcv_nxt equals B, whatever the order of the arrivals.
C9_CoveredAdvances ==
    \A B \in 1..(MaxSeq + MaxSegLen) :
        (rx # NoneVal /\ ArrivedBytes = 0..(B - 1)) => rx.conn.rcv_nxt = B

\* The arrivals are the segments of one segmentation of the byte stream:
\* two of them are the same segment or share no byte.
OneSegmentation ==
    \A i, j \in 1..Len(rx.arrivals) :
        \/ rx.arrivals[i] = rx.arrivals[j]
        \/ SegBytes(rx.arrivals[i]) \cap SegBytes(rx.arrivals[j]) = {}

\* When the arrivals are the segments of one segmentation, in any order and
\* with repetitions, and cover [0, B), rcv_nxt is B.
RecvOneSegmentationAdvances ==
    \A B \in 1..(MaxSeq + MaxSegLen) :
        (rx # NoneVal /\ OneSegmentation /\ ArrivedBytes = 0..(B - 1))
            => rx.conn.rcv_nxt = B

\* A segment arrived ahead of rcv_nxt, one arrived twice, and the receiver
\* advanced over both.
RecvReorderedAndDuplicated ==
    /\ rx # NoneVal
    /\ OneSegmentation
    /\ Len(rx.arrivals) = MaxArrivals
    /\ rx.arrivals[1].seq > 0
    /\ \E i, j \in 1..Len(rx.arrivals) : i # j /\ rx.arrivals[i] = rx.arrivals[j]
    /\ ArrivedBytes = 0..(MaxSeq - 1)
    /\ rx.conn.rcv_nxt = MaxSeq

(***************************************************************************)
(* src/src/cc/ring.rs: the ring collective. The State and the transport    *)
(* sit behind Arc<Mutex<..>>; every event and every done callback holds a  *)
(* clone of the two Arcs, so the model keeps one State and one transport   *)
(* in the variable ring and hands them to the handlers in a world record   *)
(* [sim, st, transport]. The transports are the two of the tests.          *)
(***************************************************************************)
MaxRanks == 3
MaxDelayUs == 2

\* SimTime::from_micros
from_micros(us) == us * 1000

\* usize::saturating_sub
saturating_sub(a, b) == IF a >= b THEN a - b ELSE 0

\* A step count that takes every operation for an allreduce.
CollectiveOpTotalStepsDouble(op, ranks) == saturating_sub(ranks, 1) * 2

\* CollectiveOp::total_steps
CollectiveOpTotalSteps(op, ranks) ==
    IF op = "Allreduce" THEN saturating_sub(ranks, 1) * 2
    ELSE saturating_sub(ranks, 1)

RingOps == {"Allreduce", "Allgather", "Reducescatter", "Alltoall"}

\* State::total_steps: that of the operation of the collective, which for
\* the allreduce is saturating_sub(ranks, 1) * 2.
total_steps(st) == CollectiveOpTotalSteps(st.op, st.ranks)

\* The State that start_ring_allreduce builds from its config.
RingStateNew(cfg) ==
    [op |-> "Allreduce",
     ranks |-> cfg.ranks, hosts |-> cfg.hosts, chunk_bytes |-> cfg.chunk_bytes,
     routing |-> cfg.routing, step |-> 0, inflight |-> 0,
     next_flow_id |-> cfg.start_flow_id, start_at |-> NoneVal,
     reduce_done_at |-> NoneVal, done_at |-> NoneVal,
     flow_start_at |-> <<>>, flow_fct_ns |-> <<>>]

\* start_ring_allreduce: the State and the StartStep event at SimTime::ZERO.
start_ring_allreduce(s, cfg) ==
    [sim |-> schedule(s, 0, [kind |-> "StartStep"]), st |-> RingStateNew(cfg)]

\* start_ring_allgather, start_ring_reducescatter and start_ring_alltoall:
\* as start_ring_allreduce, with the State of the operation op.
start_ring_collective(s, cfg, op) ==
    [sim |-> schedule(s, 0, [kind |-> "StartStep"]),
     st |-> [RingStateNew(cfg) EXCEPT !.op = op]]

\* The record both transports push, and the CallDone event they schedule.
\* The done callback is the closure StartStep::execute made: it captured
\* flow_id.
TransportStartFlow(w, flow_id, src, dst, chunk_bytes, routing, done, delay) ==
    [w EXCEPT
        !.transport.records =
            Append(w.transport.records,
                   [flow_id |-> flow_id, src |-> src, dst |-> dst, routing |-> routing,
                    start_at |-> w.sim.now, done_at |-> w.sim.now + delay,
                    chunk_bytes |-> chunk_bytes]),
        !.sim = schedule(w.sim, w.sim.now + delay, [kind |-> "CallDone", done |-> done])]

\* RecordingTransport::start_flow
RecordingTransportStartFlow(w0, flow_id, src, dst, chunk_bytes, routing, done) ==
    Bind(w0, LAMBDA w :
       TransportStartFlow(w, flow_id, src, dst, chunk_bytes, routing, done,
                          w.transport.delay))

\* VariableDelayTransport::start_flow
VariableDelayTransportStartFlow(w0, flow_id, src, dst, chunk_bytes, routing, done) ==
    Bind(w0, LAMBDA w :
       LET ranks == Max(w.transport.ranks, 1)
           rel == saturating_sub(flow_id, w.transport.start_flow_id)
           step == rel \div ranks
           rank == rel % ranks
       IN TransportStartFlow(w, flow_id, src, dst, chunk_bytes, routing, done,
                             from_micros(step + rank + 1)))

\* transport.start_flow(..) through the Box<dyn RingTransport>
start_flow(w, flow_id, src, dst, chunk_bytes, routing, done) ==
    IF w.transport.kind = "Recording"
    THEN RecordingTransportStartFlow(w, flow_id, src, dst, chunk_bytes, routing, done)
    ELSE VariableDelayTransportStartFlow(w, flow_id, src, dst, chunk_bytes, routing, done)

\* A ring that sends every flow to the previous rank.
RingDstPrev(ctx, rank) == ctx.hosts[((rank + ctx.ranks - 1) % ctx.ranks) + 1]

\* A ring in which the all-to-all walks the same neighbour as the others.
RingDstNeighbour(ctx, rank) == ctx.hosts[((rank + 1) % ctx.ranks) + 1]

\* The destination of the flow of a rank: the next rank of the ring, and for
\* the all-to-all the rank step + 1 places further.
RingDst(ctx, rank) ==
    IF ctx.op = "Alltoall"
    THEN ctx.hosts[((rank + ctx.step + 1) % ctx.ranks) + 1]
    ELSE ctx.hosts[((rank + 1) % ctx.ranks) + 1]

\* A collective that records reduce_done_at whatever its operation.
RecordsReduceDoneAnyOp(st) == st.step + 1 = saturating_sub(st.ranks, 1)

\* FlowDone::execute, the test that records reduce_done_at: the step that
\* completes is the (ranks - 1)-th of a reducing collective.
RecordsReduceDone(st) ==
    /\ st.op \in {"Allreduce", "Reducescatter"}
    /\ st.step + 1 = saturating_sub(st.ranks, 1)

\* StartStep::execute: the loop over the ranks that starts the flows of a
\* step. ctx is the StepContext.
RECURSIVE StartStepFlows(_, _, _)
StartStepFlows(w0, ctx, rank) ==
    Bind(w0, LAMBDA w :
       IF rank >= ctx.ranks THEN w
       ELSE StartStepFlows(
               start_flow(w, ctx.start_flow_id + rank, ctx.hosts[rank + 1],
                          RingDst(ctx, rank), ctx.chunk_bytes,
                          ctx.routing, [flow_id |-> ctx.start_flow_id + rank]),
               ctx, rank + 1))

\* StartStep::execute
StartStepExecute(w0) ==
    Bind(w0, LAMBDA w :
    Bind(w.st, LAMBDA st :
       LET started == IF st.start_at = NoneVal THEN Some(w.sim.now) ELSE st.start_at
       IN IF total_steps(st) = 0
          THEN [w EXCEPT !.st.start_at = started, !.st.done_at = Some(w.sim.now)]
          ELSE IF st.step >= total_steps(st)
          THEN [w EXCEPT !.st.done_at = Some(w.sim.now)]
          ELSE StartStepFlows(
                  [w EXCEPT !.st.start_at = started,
                            !.st.inflight = st.ranks,
                            !.st.next_flow_id = st.next_flow_id + st.ranks,
                            !.st.flow_start_at =
                                [f \in st.next_flow_id..(st.next_flow_id + st.ranks - 1)
                                    |-> w.sim.now] @@ st.flow_start_at],
                  [ranks |-> st.ranks, hosts |-> st.hosts,
                   chunk_bytes |-> st.chunk_bytes, routing |-> st.routing,
                   start_flow_id |-> st.next_flow_id, op |-> st.op,
                   step |-> st.step],
                  0)))

\* CallDone::execute calls the done callback with sim.now(); the callback
\* schedules FlowDone { flow_id, done_at: now } at now.
CallDoneExecute(w0, done) ==
    Bind(w0, LAMBDA w :
       [w EXCEPT !.sim = schedule(w.sim, w.sim.now,
                            [kind |-> "FlowDone", flow_id |-> done.flow_id,
                             done_at |-> w.sim.now])])

\* A FlowDone that takes the first completion of a step for the last.
FlowDoneExecuteFirst(w0, flow_id, done_at) ==
    Bind(w0, LAMBDA w :
    Bind(w.st, LAMBDA st :
       IF st.inflight = 0 \/ st.done_at # NoneVal THEN w
       ELSE Bind([st EXCEPT !.inflight = 0, !.step = st.step + 1], LAMBDA st1 :
               IF st1.step >= total_steps(st1)
               THEN [w EXCEPT !.st = [st1 EXCEPT !.done_at = Some(w.sim.now)]]
               ELSE [w EXCEPT !.st = st1,
                              !.sim = schedule(w.sim, w.sim.now,
                                               [kind |-> "StartStep"])])))

\* A FlowDone that schedules a StartStep after the final step as well.
FlowDoneExecuteRestart(w0, flow_id, done_at) ==
    Bind(w0, LAMBDA w :
    Bind(w.st, LAMBDA st :
       IF st.inflight = 0 \/ st.done_at # NoneVal THEN w
       ELSE Bind(IF flow_id \in DOMAIN st.flow_start_at
                 THEN [st EXCEPT
                         !.flow_start_at =
                             [f \in DOMAIN st.flow_start_at \ {flow_id}
                                 |-> st.flow_start_at[f]],
                         !.flow_fct_ns =
                             Append(st.flow_fct_ns,
                                    saturating_sub(done_at, st.flow_start_at[flow_id]))]
                 ELSE st, LAMBDA st1 :
            Bind([st1 EXCEPT !.inflight = saturating_sub(st1.inflight, 1)], LAMBDA st2 :
               IF st2.inflight # 0 THEN [w EXCEPT !.st = st2]
               ELSE Bind([st2 EXCEPT
                            !.reduce_done_at =
                                IF RecordsReduceDone(st2)
                                THEN Some(w.sim.now) ELSE st2.reduce_done_at,
                            !.step = st2.step + 1], LAMBDA st3 :
                       IF st3.step >= total_steps(st3)
                       THEN [w EXCEPT !.st = [st3 EXCEPT !.done_at = Some(w.sim.now)],
                                      !.sim = schedule(w.sim, w.sim.now,
                                                       [kind |-> "StartStep"])]
                       ELSE [w EXCEPT !.st = st3,
                                      !.sim = schedule(w.sim, w.sim.now,
                                                       [kind |-> "StartStep"])])))))

\* FlowDone::execute
FlowDoneExecute(w0, flow_id, done_at) ==
    Bind(w0, LAMBDA w :
    Bind(w.st, LAMBDA st :
       IF st.inflight = 0 \/ st.done_at # NoneVal THEN w
       ELSE Bind(IF flow_id \in DOMAIN st.flow_start_at
                 THEN [st EXCEPT
                         !.flow_start_at =
                             [f \in DOMAIN st.flow_start_at \ {flow_id}
                                 |-> st.flow_start_at[f]],
                         !.flow_fct_ns =
                             Append(st.flow_fct_ns,
                                    saturating_sub(done_at, st.flow_start_at[flow_id]))]
                 ELSE st, LAMBDA st1 :
            Bind([st1 EXCEPT !.inflight = saturating_sub(st1.inflight, 1)], LAMBDA st2 :
               IF st2.inflight # 0 THEN [w EXCEPT !.st = st2]
               ELSE Bind([st2 EXCEPT
                            !.reduce_done_at =
                                IF RecordsReduceDone(st2)
                                THEN Some(w.sim.now) ELSE st2.reduce_done_at,
                            !.step = st2.step + 1], LAMBDA st3 :
                       IF st3.step >= total_steps(st3)
                       THEN [w EXCEPT !.st = [st3 EXCEPT !.done_at = Some(w.sim.now)]]
                       ELSE [w EXCEPT !.st = st3,
                                      !.sim = schedule(w.sim, w.sim.now,
                                                       [kind |-> "StartStep"])])))))

\* Event::execute of the events of a ring collective.
RingEventExecute(w0, item) ==
    Bind(w0, LAMBDA w :
       CASE item.ev.kind = "StartStep" -> StartStepExecute(w)
         [] item.ev.kind = "CallDone" -> CallDoneExecute(w, item.ev.done)
         [] item.ev.kind = "FlowDone" ->
              FlowDoneExecute(w, item.ev.flow_id, item.ev.done_at))

\* The optional done callback of the collective: the handler that finds
\* total_steps = 0, or that advances to the final step and records done_at,
\* calls it with now. The callback of the tests pushes now to called_at.
RingEventExecuteDoneCb(w0, item) ==
    Bind(w0, LAMBDA w :
    Bind(RingEventExecute(w, item), LAMBDA r :
       LET fires == IF item.ev.kind = "StartStep" THEN total_steps(w.st) = 0
                    ELSE IF item.ev.kind = "FlowDone"
                    THEN /\ ~(w.st.inflight = 0 \/ w.st.done_at # NoneVal)
                         /\ r.st.done_at # NoneVal
                    ELSE FALSE
       IN IF fires THEN [r EXCEPT !.called_at = Append(r.called_at, r.sim.now)]
          ELSE r))

(***************************************************************************)
(* The ring specification: the driver of the ring tests. It builds a       *)
(* transport and a config, calls start_ring_allreduce, then sim.run.       *)
(***************************************************************************)
RingStartFlowIds == {0, 100}

RingTransports(ranks, start_flow_id) ==
    {[kind |-> "Recording", delay |-> from_micros(d), records |-> <<>>] :
        d \in 0..MaxDelayUs}
    \cup {[kind |-> "VariableDelay", ranks |-> ranks,
           start_flow_id |-> start_flow_id, records |-> <<>>]}

InitRing ==
    /\ \E ranks \in 0..MaxRanks, id \in RingStartFlowIds :
          /\ drv = [pc |-> "setup", ranks |-> ranks, start_flow_id |-> id]
          /\ \E t \in RingTransports(ranks, id) :
                ring = [st |-> NoneVal, transport |-> t, called_at |-> <<>>]
    /\ sim = SimulatorDefault
    /\ dummy = NoneVal
    /\ tq = NoneVal
    /\ qlast = NoneVal
    /\ network = NoneVal
    /\ dispatched = 0
    /\ rx = NoneVal
    /\ packet = NoneVal

\* let handle = start_ring_allreduce(&mut sim, cfg)
StartRingAllreduceCall ==
    /\ drv.pc = "setup"
    /\ \E r \in {start_ring_allreduce(sim,
                    [ranks |-> drv.ranks, hosts |-> [i \in 1..drv.ranks |-> i - 1],
                     chunk_bytes |-> 123, routing |-> "PerFlow",
                     start_flow_id |-> drv.start_flow_id])} :
          /\ sim' = r.sim
          /\ ring' = [ring EXCEPT !.st = r.st]
    /\ drv' = [drv EXCEPT !.pc = "started"]
    /\ UNCHANGED <<rx, packet, dummy, queueVars, netVars>>

\* let handle = start(&mut sim, cfg) with start one of start_ring_allgather,
\* start_ring_reducescatter and start_ring_alltoall.
StartRingCollectiveCall ==
    /\ drv.pc = "setup"
    /\ \E op \in RingOps \ {"Allreduce"} :
          \E r \in {start_ring_collective(sim,
                       [ranks |-> drv.ranks, hosts |-> [i \in 1..drv.ranks |-> i - 1],
                        chunk_bytes |-> 123, routing |-> "PerFlow",
                        start_flow_id |-> drv.start_flow_id], op)} :
             /\ sim' = r.sim
             /\ ring' = [ring EXCEPT !.st = r.st]
    /\ drv' = [drv EXCEPT !.pc = "started"]
    /\ UNCHANGED <<rx, packet, dummy, queueVars, netVars>>

\* sim.run(&mut world)
RingRunCall ==
    /\ drv.pc = "started"
    /\ drv' = [drv EXCEPT !.pc = "run"]
    /\ UNCHANGED <<unitVars, sim, dummy, queueVars, netVars>>

\* One iteration of the loop of Simulator::run: pop, set now, execute.
RingRunStep ==
    /\ drv.pc = "run"
    /\ \E item \in sim.q :
          /\ HeapTop(sim.q, item)
          /\ \E w \in {RingEventExecuteDoneCb(
                          [sim |-> [sim EXCEPT !.q = sim.q \ {item}, !.now = item.at],
                           st |-> ring.st, transport |-> ring.transport,
                           called_at |-> ring.called_at], item)} :
                /\ sim' = w.sim
                /\ ring' = [st |-> w.st, transport |-> w.transport,
                            called_at |-> w.called_at]
    /\ UNCHANGED <<rx, packet, drv, dummy, queueVars, netVars>>

\* The loop of Simulator::run ends: the heap is empty.
RingRunReturn ==
    /\ drv.pc = "run"
    /\ sim.q = {}
    /\ drv' = [drv EXCEPT !.pc = "done"]
    /\ UNCHANGED <<unitVars, sim, dummy, queueVars, netVars>>

NextRing ==
    \/ StartRingAllreduceCall \/ StartRingCollectiveCall
    \/ RingRunCall \/ RingRunStep \/ RingRunReturn

SpecRing == InitRing /\ [][NextRing]_vars

(***************************************************************************)
(* Claims about the ring collective. They read the records the transport   *)
(* keeps of every start_flow call and the State of the collective.         *)
(***************************************************************************)
RingRecords == ring.transport.records

\* The step a started flow belongs to: flow ids are handed out step by step,
\* ranks at a time, from start_flow_id on.
RingStepOf(flow_id) == (flow_id - drv.start_flow_id) \div drv.ranks

RingStepRecords(s) ==
    {i \in 1..Len(RingRecords) : RingStepOf(RingRecords[i].flow_id) = s}

\* A flow has reported completion when its FlowDone was counted: the flow
\* was started and FlowDone::execute removed it from flow_start_at.
RingReported(flow_id) ==
    /\ flow_id < ring.st.next_flow_id
    /\ flow_id \notin DOMAIN ring.st.flow_start_at

RECURSIVE MaxOfSet(_)
MaxOfSet(S) ==
    IF S = {} THEN 0
    ELSE LET x == CHOOSE x \in S : TRUE IN Max(x, MaxOfSet(S \ {x}))

\* C10: in a ring collective no flow of step s+1 is started before every one
\* of the ranks flows of step s has reported completion, and step s+1 starts
\* at exactly the virtual time at which the slowest flow of step s
\* completed, also when the flows of a step have unequal durations.
C10_StepBarrier ==
    (ring # NoneVal /\ ring.st # NoneVal) =>
        \A i \in 1..Len(RingRecords) :
            LET s == RingStepOf(RingRecords[i].flow_id)
            IN s >= 1 =>
                 /\ Cardinality(RingStepRecords(s - 1)) = drv.ranks
                 /\ \A j \in RingStepRecords(s - 1) :
                       RingReported(RingRecords[j].flow_id)
                 /\ RingRecords[i].start_at =
                       MaxOfSet({RingRecords[j].done_at : j \in RingStepRecords(s - 1)})

\* A step after the first was started behind a step whose flows took
\* unequal times: one of them completed before the step that follows began.
C10_Witness ==
    /\ ring # NoneVal
    /\ ring.st # NoneVal
    /\ ring.transport.kind = "VariableDelay"
    /\ \E i, j \in 1..Len(RingRecords) :
          /\ RingStepOf(RingRecords[i].flow_id) = RingStepOf(RingRecords[j].flow_id) + 1
          /\ RingRecords[j].done_at < RingRecords[i].start_at

DoneCallsOf(id) == {i \in 1..Len(drv.done_calls) : drv.done_calls[i].conn_id = id}

\* The flows started through start_flow: their connection exists and their
\* done callback is registered or was called.
StartedTcpFlows ==
    {id \in DOMAIN network.tcp.conns :
        id \in DOMAIN network.tcp.done_callbacks \/ DoneCallsOf(id) # {}}
StartedDctcpFlows ==
    {id \in DOMAIN network.dctcp.conns :
        id \in DOMAIN network.dctcp.done_callbacks \/ DoneCallsOf(id) # {}}

\* C12: for every flow started through a ring transport adapter's
\* start_flow, for any chunk size including 0 bytes, the done callback passed
\* to start_flow is eventually invoked, and it is invoked exactly once: when
\* sim.run has returned, the callback of every started flow was called once.
C12_DoneCallbackInvoked ==
    (network # NoneVal /\ drv.pc = "done") =>
        \A id \in StartedTcpFlows \cup StartedDctcpFlows :
            Cardinality(DoneCallsOf(id)) = 1

\* The done callback of a started flow and the completion of its connection:
\* before done_at is set the callback is registered and was not called; from
\* then on it was called once, at done_at, and its entry is gone.
DoneCallbackOnce(conn, done_callbacks) ==
    IF conn.done_at = NoneVal
    THEN DoneCallsOf(conn.id) = {} /\ conn.id \in DOMAIN done_callbacks
    ELSE /\ Cardinality(DoneCallsOf(conn.id)) = 1
         /\ \A i \in DoneCallsOf(conn.id) : drv.done_calls[i].at = conn.done_at.some
         /\ conn.id \notin DOMAIN done_callbacks

\* C13: for each TCP or DCTCP connection the registered done callback is
\* invoked at most once, at the moment the connection completes, even when
\* further ACKs (duplicates, or ACKs of spurious retransmissions) arrive
\* afterwards; the callback entry is removed on its first invocation.
C13_DoneCallbackAtMostOnce ==
    network # NoneVal =>
        /\ \A id \in StartedTcpFlows :
              DoneCallbackOnce(network.tcp.conns[id], network.tcp.done_callbacks)
        /\ \A id \in StartedDctcpFlows :
              DoneCallbackOnce(network.dctcp.conns[id], network.dctcp.done_callbacks)

\* The callback of a TCP flow was called, and the sender later received
\* another ACK that covers total_bytes.
C13_Witness ==
    /\ network # NoneVal
    /\ TcpConnId \in StartedTcpFlows
    /\ Cardinality(DoneCallsOf(TcpConnId)) = 1
    /\ \E i \in CoveringAcks(network.tcp.conns[TcpConnId]) :
          network.viz[i].t_ns > network.tcp.conns[TcpConnId].done_at.some

\* A TcpRto event that TcpRto::execute must ignore: its connection is done,
\* its token is not the current rto_token, or the stored deadline is absent
\* or later than the time the event fires at.
StaleTcpRto(item) ==
    /\ item.ev.kind = "TcpRto"
    /\ item.ev.conn_id \in DOMAIN network.tcp.conns
    /\ LET conn == network.tcp.conns[item.ev.conn_id]
       IN \/ conn.done_at # NoneVal
          \/ conn.rto_token # item.ev.token
          \/ conn.rto_deadline = NoneVal
          \/ item.at < conn.rto_deadline.some

\* C14: a TcpRto event that fires when the connection is done, or whose
\* token differs from the connection's current rto_token, or whose stored
\* deadline is absent or still in the future, does nothing: the step of
\* Simulator::run that dispatches it only pops it and sets now; the network
\* (connections, link queues, counters, viz log) is left as it was and
\* nothing is scheduled.
C14_StaleRtoDoesNothing ==
    [][\A item \in sim.q :
          (/\ network # NoneVal
           /\ drv.pc = "run"
           /\ dispatched' # dispatched
           /\ HeapTop(sim.q, item)
           /\ StaleTcpRto(item))
             => /\ network' = network
                /\ sim' = [sim EXCEPT !.q = sim.q \ {item}, !.now = item.at]
                /\ drv' = drv]_vars

\* The run returned with a completed TCP connection that armed its timer
\* more than once: every TcpRto event scheduled before the last re-arming
\* fired with an old token, and no RTO was ever taken.
C14_Witness ==
    /\ network # NoneVal
    /\ drv.pc = "done"
    /\ TcpCompleted
    /\ network.tcp.conns[TcpConnId].rto_token >= 2
    /\ VizIdx("TcpRto") = {}
    /\ \A item \in sim.q : item.ev.kind # "TcpRto"

(***************************************************************************)
(* Invariants of the sender of a connection (SpecNet).                     *)
(***************************************************************************)
AllConns ==
    {network.tcp.conns[id] : id \in DOMAIN network.tcp.conns}
        \cup {network.dctcp.conns[id] : id \in DOMAIN network.dctcp.conns}

\* C15: in every reachable state of a TCP or DCTCP connection,
\* last_acked <= next_seq <= total_bytes.
C15_SeqOrder ==
    network # NoneVal =>
        \A conn \in AllConns :
            conn.last_acked <= conn.next_seq /\ conn.next_seq <= conn.total_bytes

\* A sender that had part of its data acknowledged and more of it in flight.
C15_Witness ==
    /\ network # NoneVal
    /\ \E conn \in AllConns : 0 < conn.last_acked /\ conn.last_acked < conn.next_seq

\* C16 as stated: in every reachable state of a connection, every key of the
\* sender's inflight map (the starting sequence number of a sent but
\* unacknowledged segment) is strictly greater than last_acked.
C16_KeysAboveLastAcked ==
    network # NoneVal =>
        \A conn \in AllConns : \A s \in DOMAIN conn.inflight : s > conn.last_acked

\* C16 amended: every key of the sender's inflight map is greater than or
\* equal to last_acked.
C16_KeysNotBelowLastAcked ==
    network # NoneVal =>
        \A conn \in AllConns : \A s \in DOMAIN conn.inflight : s >= conn.last_acked

\* After an ACK moved last_acked, the next unacknowledged segment starts
\* right at last_acked and a later one is in flight behind it.
C16_Witness ==
    /\ network # NoneVal
    /\ \E conn \in AllConns :
          /\ conn.last_acked > 0
          /\ conn.last_acked \in DOMAIN conn.inflight
          /\ \E s \in DOMAIN conn.inflight : s > conn.last_acked

TcpRtoInRange(conn) ==
    conn.cfg.min_rto <= conn.rto /\ conn.rto <= conn.cfg.max_rto

TcpRtoFires(item) ==
    /\ item.ev.kind = "TcpRto"
    /\ item.ev.conn_id \in DOMAIN network.tcp.conns
    /\ ~StaleTcpRto(item)
    /\ LET conn == network.tcp.conns[item.ev.conn_id]
       IN IF conn.sender_state # "Established"
          THEN conn.syn_sent_at # NoneVal
          ELSE earliest_unacked_seq(conn) # NoneVal

\* C17: the step of Simulator::run that dispatches a TcpRto which fires
\* (for a SYN or for data) replaces the connection's rto by twice its value
\* clamped into [min_rto, max_rto], and every step that takes an RTT sample
\* (srtt changes) leaves rto inside [min_rto, max_rto]; this holds for every
\* firing of a run, however many follow one another.
C17_RtoDoublesWithinBounds ==
    [][/\ \A item \in sim.q :
             (/\ network # NoneVal
              /\ drv.pc = "run"
              /\ dispatched' # dispatched
              /\ HeapTop(sim.q, item)
              /\ TcpRtoFires(item))
                => LET conn == network.tcp.conns[item.ev.conn_id]
                       after == network'.tcp.conns[item.ev.conn_id]
                   IN /\ after.rto = Min(Max(conn.rto * 2, conn.cfg.min_rto),
                                         conn.cfg.max_rto)
                      /\ TcpRtoInRange(after)
       /\ (network # NoneVal /\ network' # NoneVal)
             => \A id \in DOMAIN network.tcp.conns :
                   network'.tcp.conns[id].srtt # network.tcp.conns[id].srtt
                      => TcpRtoInRange(network'.tcp.conns[id])]_vars

\* Three data timeouts were taken with no RTT sample before them, and the
\* connection's rto, doubled at each one, has gone past twice init_rto and
\* sits at max_rto.
C17_Witness ==
    /\ network # NoneVal
    /\ \E id \in DOMAIN network.tcp.conns :
          LET conn == network.tcp.conns[id]
          IN /\ conn.srtt = NoneVal
             /\ conn.rto = conn.cfg.max_rto
             /\ conn.rto > 2 * conn.cfg.init_rto
             /\ Cardinality(VizIdx("TcpRto")) >= 3

\* The segments of flow id now held in a link queue or on a wire.
SegsInNetwork(id) ==
    LET queued == UNION {{LinkQueued(network.links[k])[i] :
                             i \in DOMAIN LinkQueued(network.links[k])} :
                                k \in DOMAIN network.links}
        wired == {it.ev.pkt : it \in {e \in sim.q : e.ev.kind = "DeliverPacket"}}
    IN {pkt.transport : pkt \in {p \in queued \cup wired : p.flow_id = id}}

\* The TCP viz events of kind about connection id.
TcpVizOf(kind, id) == {i \in VizIdx(kind) : network.viz[i].flow_id = id}

\* C18 (states): a connection with handshake whose sender is not yet
\* Established has sent no data: next_seq is 0, nothing is in flight, the viz
\* log has no TcpSendData of it, and every segment of the flow in a queue or on
\* a wire is a Syn or a SynAck. A connection without handshake is Established
\* from start_conn on, and if it has bytes to send the viz log holds a
\* TcpSendData stamped with its start time.
HandshakeGatesData ==
    network # NoneVal =>
       \A id \in DOMAIN network.tcp.conns :
          LET conn == network.tcp.conns[id]
          IN /\ (conn.cfg.handshake /\ conn.sender_state # "Established")
                   => /\ conn.next_seq = 0
                      /\ DOMAIN conn.inflight = {}
                      /\ TcpVizOf("TcpSendData", id) = {}
                      /\ \A t \in SegsInNetwork(id) : t.seg \in {"Syn", "SynAck"}
             /\ ~conn.cfg.handshake
                   => /\ conn.sender_state = "Established"
                      /\ conn.total_bytes > 0
                            => \E i \in TcpVizOf("TcpSendData", id) :
                                  /\ conn.start_at # NoneVal
                                  /\ network.viz[i].t_ns = conn.start_at.some
                                  /\ network.viz[i].x.seq = 0

\* C18 (steps): the sender of a connection becomes Established only in the
\* step of Simulator::run that delivers a SynAck of the flow to conn.src, and
\* every such delivery leaves it Established; a TcpRto that fires before that
\* sends one more SYN and no data.
HandshakeSteps ==
    (network # NoneVal /\ network' # NoneVal)
       => \A id \in DOMAIN network.tcp.conns :
             LET conn == network.tcp.conns[id]
                 after == network'.tcp.conns[id]
                 synack(item) == /\ drv.pc = "run"
                                 /\ dispatched' # dispatched
                                 /\ HeapTop(sim.q, item)
                                 /\ item.ev.kind = "DeliverPacket"
                                 /\ item.ev.pkt.flow_id = id
                                 /\ item.ev.pkt.transport = TcpSynAck
                                 /\ item.ev.to = conn.src
                                 /\ item.ev.pkt.dst = conn.src
                 rto(item) == /\ drv.pc = "run"
                              /\ dispatched' # dispatched
                              /\ HeapTop(sim.q, item)
                              /\ item.ev.kind = "TcpRto"
                              /\ item.ev.conn_id = id
                              /\ TcpRtoFires(item)
             IN conn.sender_state # "Established"
                  => /\ after.sender_state = "Established"
                           <=> \E item \in sim.q : synack(item)
                     /\ (\E item \in sim.q : rto(item))
                           => /\ after.syn_retries = conn.syn_retries + 1
                              /\ after.syn_sent_at = Some(sim'.now)
                              /\ after.next_seq = 0

\* C18: with handshake the TCP sender emits no Data segment before a SynAck
\* was delivered to the source: until then it sends only the SYN, once more at
\* each RTO, and it becomes Established at the SynAck; without handshake it is
\* Established from the start and sends data at once.
C18_NoDataBeforeSynAck ==
    []HandshakeGatesData /\ [][HandshakeSteps]_vars

\* A connection with handshake is still waiting for its SynAck after a
\* timeout: the SYN went out twice and a segment of the flow is on its way.
C18_Witness ==
    /\ network # NoneVal
    /\ \E id \in DOMAIN network.tcp.conns :
          LET conn == network.tcp.conns[id]
          IN /\ conn.cfg.handshake
             /\ conn.sender_state # "Established"
             /\ conn.syn_retries >= 2
             /\ conn.rto = 2 * conn.cfg.init_rto
             /\ SegsInNetwork(id) # {}

\* The events scheduled so far that were dispatched, by seq.
LoggedSeqs == {dummy.log[i].seq : i \in DOMAIN dummy.log}

\* The return of a run_until call: the clock becomes max(now, until), where
\* now is the time of the last event dispatched, or the time at the call if
\* none was; the heap is left as the loop left it and holds only events after
\* `until`; every event scheduled so far, before or during the call, is either
\* dispatched or pending; what the call dispatched was at or before `until`.
RunUntilReturns ==
    (drv.pc = "run_until" /\ drv'.pc # "run_until")
       => /\ sim'.now = Max(sim.now, drv.until)
          /\ sim'.q = sim.q
          /\ \A p \in sim'.q : p.at > drv.until
          /\ \A k \in 0..sim'.next_seq - 1 :
                (k \in LoggedSeqs) # (\E p \in sim'.q : p.seq = k)
          /\ \A i \in drv.from + 1..Len(dummy.log) : dummy.log[i].at <= drv.until

\* An iteration of run_until dispatches one event at or before `until` and
\* takes no other event from the heap.
RunUntilDispatches ==
    (drv.pc = "run_until" /\ drv'.pc = "run_until")
       => \E item \in sim.q :
             /\ item.at <= drv.until
             /\ Len(dummy'.log) = Len(dummy.log) + 1
             /\ dummy'.log[Len(dummy'.log)].seq = item.seq
             /\ sim.q \ {item} \subseteq sim'.q

\* After run_until calls the later run dispatches what they left pending.
LaterRunDispatchesRest ==
    drv.pc = "done" =>
        /\ sim.q = {}
        /\ \A k \in 0..sim.next_seq - 1 : k \in LoggedSeqs

\* C19: run_until(until) dispatches every pending event with at <= until,
\* those at exactly `until` and those scheduled during the call included,
\* leaves every event with at > until pending for a later run, and returns
\* with now = max(now, until), also when it dispatched nothing.
C19_RunUntil ==
    []LaterRunDispatchesRest /\ [][RunUntilReturns /\ RunUntilDispatches]_vars

\* A run_until call returned after dispatching an event at exactly `until`
\* and an event that was scheduled during the call, and left an event
\* pending; an earlier call had returned without dispatching anything.
C19_Witness ==
    /\ drv.pc = "setup"
    /\ drv.calls = 2
    /\ sim.now = drv.until
    /\ \E p \in sim.q : p.at > drv.until
    /\ drv.from = 0
    /\ \E i \in DOMAIN dummy.log : dummy.log[i].at = drv.until
    /\ \E i, j \in DOMAIN dummy.log :
          i < j /\ dummy.log[j].seq >= dummy.log[i].nseq

\* The kinds of the viz events about a packet.
PktVizKinds ==
    {"NodeForward", "Enqueue", "Drop", "TxStart", "Delivered", "ArriveNode", "NodeRx"}

\* After a Drop the packet is gone: the Drop is the last event of the viz log
\* about it (no Enqueue, TxStart, ArriveNode or Delivered follows), no link
\* queue and no wire holds it, and the drop counters are the number and the
\* bytes of the Drop events.
DroppedIsDiscarded ==
    network # NoneVal =>
       /\ \A i \in VizIdx("Drop") :
             /\ \A j \in DOMAIN network.viz :
                   (j > i /\ network.viz[j].kind \in PktVizKinds)
                      => network.viz[j].pkt_id # network.viz[i].pkt_id
             /\ \A k \in DOMAIN network.links :
                   \A n \in DOMAIN LinkQueued(network.links[k]) :
                      LinkQueued(network.links[k])[n].id # network.viz[i].pkt_id
             /\ \A it \in sim.q :
                   it.ev.kind = "DeliverPacket" => it.ev.pkt.id # network.viz[i].pkt_id
       /\ network.stats.dropped_pkts = Cardinality(VizIdx("Drop"))
       /\ network.stats.dropped_bytes = SumPktBytes(VizIdx("Drop"))

\* A step of Simulator::run that delivers a packet to a node which is not its
\* destination and whose forward_from ends in a Drop changes nothing but the
\* viz log and the drop counters: dropped_pkts grows by 1, dropped_bytes by
\* the packet's size, every connection, link and queue is as before, and
\* nothing is scheduled.
ForwardDropIsSilent ==
    \A item \in sim.q :
       (/\ network # NoneVal
        /\ drv.pc = "run"
        /\ dispatched' # dispatched
        /\ HeapTop(sim.q, item)
        /\ item.ev.kind = "DeliverPacket"
        /\ item.ev.to # item.ev.pkt.dst
        /\ network'.viz[Len(network'.viz)].kind = "Drop")
          => /\ network'.viz[Len(network'.viz)].pkt_id = item.ev.pkt.id
             /\ network' = [network EXCEPT
                   !.viz = network'.viz,
                   !.stats.dropped_pkts = network.stats.dropped_pkts + 1,
                   !.stats.dropped_bytes =
                       network.stats.dropped_bytes + item.ev.pkt.size_bytes]
             /\ sim' = [sim EXCEPT !.q = sim.q \ {item}, !.now = item.at]
             /\ drv' = drv

\* C20: when forward_from finds the queue of the chosen link unable to take
\* the packet, dropped_pkts grows by 1 and dropped_bytes by the packet's size,
\* the packet is discarded and never transmitted or delivered afterwards, and
\* no connection's transport state changes.
C20_DropIsSilent ==
    []DroppedIsDiscarded /\ [][ForwardDropIsSilent]_vars

\* A segment of a TCP connection was dropped at a node it was being forwarded
\* by, and the sender later took an RTO.
C20_Witness ==
    /\ network # NoneVal
    /\ \E i \in VizIdx("Drop") :
          /\ network.viz[i].flow_id \in DOMAIN network.tcp.conns
          /\ i > 2
          /\ network.viz[i - 2].kind = "NodeRx"
          /\ network.viz[i - 2].pkt_id = network.viz[i].pkt_id
          /\ \E j \in VizIdx("TcpRto") :
                j > i /\ network.viz[j].flow_id = network.viz[i].flow_id

(***************************************************************************)
(* The link priority specification: the driver of                          *)
(* link_priority_queue_sends_ack_before_data_when_both_queued schedules    *)
(* DeliverPacket events at the first host for TCP data and ACK packets of  *)
(* its own making and runs the simulator; the links are those of           *)
(* Link::new or had their capacity set.                                    *)
(***************************************************************************)
InitPrio ==
    /\ sim = SimulatorDefault
    /\ \E n \in 2..MaxNodes, cap \in LineCapacities : network = BuildLine(n, cap)
    /\ drv = [pc |-> "setup", calls |-> 0, done_calls |-> <<>>, segs |-> <<>>]
    /\ dispatched = 0
    /\ dummy = NoneVal
    /\ tq = NoneVal
    /\ qlast = NoneVal
    /\ rx = NoneVal
    /\ packet = NoneVal
    /\ ring = NoneVal

\* sim.schedule(at, DeliverPacket { to: h0, pkt }) for a packet built with
\* Packet::new_dynamic whose transport is a TCP Data or a TCP Ack.
InjectSegCall ==
    /\ drv.pc = "setup"
    /\ drv.calls < MaxSegs
    /\ \E at \in RawTimes, ack \in BOOLEAN :
          LET size == IF ack THEN 1 ELSE 2
              pkt == [new_dynamic(1 + drv.calls, 1 + drv.calls, size,
                                  0, network.nodes - 1)
                         EXCEPT !.transport = IF ack THEN TcpAck(1) ELSE TcpData(0, size)]
          IN /\ sim' = schedule(sim, at, [kind |-> "DeliverPacket", to |-> 0, pkt |-> pkt])
             /\ drv' = [drv EXCEPT !.calls = drv.calls + 1,
                                   !.segs = Append(drv.segs, pkt)]
    /\ UNCHANGED <<unitVars, network, dummy, queueVars, dispatched>>

NextPrio == InjectSegCall \/ NetRunCall \/ NetRunStep \/ NetRunReturn

SpecPrio == InitPrio /\ [][NextPrio]_vars

\* The viz events of kind about packet id on the link from -> to.
LinkVizOf(kind, id, from, to) ==
    {i \in VizIdx(kind) : /\ network.viz[i].pkt_id = id
                          /\ network.viz[i].x.link_from = from
                          /\ network.viz[i].x.link_to = to}

\* C21: on every link, when a data packet was enqueued and, before its
\* transmission started, an ACK was enqueued behind it, the transmission of
\* the ACK starts before that of the data packet.
C21_AckBeforeData ==
    \A d, a \in 1..Len(drv.segs) :
       (drv.segs[d].transport.seg = "Data" /\ drv.segs[a].transport.seg = "Ack")
          => \A l \in DOMAIN network.links :
                LET from == network.links[l].from
                    to == network.links[l].to
                    encD == LinkVizOf("Enqueue", drv.segs[d].id, from, to)
                    encA == LinkVizOf("Enqueue", drv.segs[a].id, from, to)
                    txD == LinkVizOf("TxStart", drv.segs[d].id, from, to)
                    txA == LinkVizOf("TxStart", drv.segs[a].id, from, to)
                IN \A i \in encD, j \in encA, k \in txD :
                      (i < j /\ j < k) => \E m \in txA : m < k

(***************************************************************************)
(* The routing specification: a graph of up to MaxRouteNodes nodes and     *)
(* MaxRouteLinks directed links built with add_host and connect, into      *)
(* which the driver injects dynamically routed packets of one flow to one  *)
(* destination and runs the simulator.                                     *)
(***************************************************************************)
EdgePairs(n) == {e \in (0..n - 1) \X (0..n - 1) : e[1] # e[2]}

\* connect(from, to, 1 ns, 8 Gbit/s) for every pair of E, in the order of
\* (from, to).
RECURSIVE ConnectAll(_, _)
ConnectAll(net, E) ==
    IF E = {} THEN net
    ELSE LET e == CHOOSE e \in E :
                     \A o \in E : e[1] < o[1] \/ (e[1] = o[1] /\ e[2] <= o[2])
         IN ConnectAll(connect(net, e[1], e[2], 1, 8000), E \ {e})

RouteFlows == {7, 8}

InitRoute ==
    /\ sim = SimulatorDefault
    /\ \E n \in 2..MaxRouteNodes :
          \E E \in {S \in SUBSET EdgePairs(n) : Cardinality(S) <= MaxRouteLinks} :
             network = ConnectAll(AddHosts(NetworkDefault, n), E)
    /\ drv = [pc |-> "setup", calls |-> 0, done_calls |-> <<>>, segs |-> <<>>]
    /\ dispatched = 0
    /\ dummy = NoneVal
    /\ tq = NoneVal
    /\ qlast = NoneVal
    /\ rx = NoneVal
    /\ packet = NoneVal
    /\ ring = NoneVal

\* sim.schedule(at, DeliverPacket { to: src, pkt }) with a packet of
\* Packet::new_dynamic for a destination that src has a route to; the packets
\* of a run belong to one flow, leave from one node and go to one
\* destination, the first at time 0.
RouteInjectCall ==
    /\ drv.pc = "setup"
    /\ drv.calls < MaxRoutePkts
    /\ \E at \in RawTimes, src \in 0..network.nodes - 1, dst \in 0..network.nodes - 1,
          flow \in RouteFlows :
          /\ next_hops(network, src, dst) # NoneVal
          /\ IF drv.segs = <<>> THEN at = 0
             ELSE /\ src = drv.segs[1].src
                  /\ dst = drv.segs[1].dst
                  /\ flow = drv.segs[1].flow_id
          /\ LET pkt == new_dynamic(10 + drv.calls, flow, 2, src, dst)
             IN /\ sim' = schedule(sim, at,
                                   [kind |-> "DeliverPacket", to |-> src, pkt |-> pkt])
                /\ drv' = [drv EXCEPT !.calls = drv.calls + 1,
                                      !.segs = Append(drv.segs, pkt)]
    /\ UNCHANGED <<unitVars, network, dummy, queueVars, dispatched>>

NextRoute == RouteInjectCall \/ NetRunCall \/ NetRunStep \/ NetRunReturn

SpecRoute == InitRoute /\ [][NextRoute]_vars

\* The nodes that a walk of at most k links from v ends at.
RECURSIVE ReachWithin(_, _, _)
ReachWithin(net, v, k) ==
    IF k = 0 THEN {v}
    ELSE Bind(ReachWithin(net, v, k - 1), LAMBDA p :
            p \cup {net.links[i].to :
                       i \in {j \in DOMAIN net.links : net.links[j].from \in p}})

\* The hop distance from v to dst: the length of a shortest walk, -1 when
\* there is none.
HopDist(net, v, dst) ==
    Bind([k \in 0..net.nodes |-> ReachWithin(net, v, k)], LAMBDA within :
       IF dst \notin within[net.nodes] THEN -1
       ELSE CHOOSE k \in 0..net.nodes :
               /\ dst \in within[k]
               /\ \A j \in 0..(k - 1) : dst \notin within[j])

OutNeighbours(net, v) == {net.links[i].to : i \in {j \in DOMAIN net.links : net.links[j].from = v}}

\* The walk of route_ecmp_path from cur: pick_ecmp among next_hops at each
\* node until dst is reached; fuel bounds the walk by the number of nodes.
RECURSIVE RouteWalk(_, _, _, _, _)
RouteWalk(net, cur, dst, flow_id, fuel) ==
    IF cur = dst \/ fuel = 0 \/ next_hops(net, cur, dst) = NoneVal THEN <<cur>>
    ELSE <<cur>> \o RouteWalk(net, pick_ecmp(cur, dst, flow_id,
                                             next_hops(net, cur, dst).some),
                              dst, flow_id, fuel - 1)

\* Network::route_ecmp_path
route_ecmp_path(net, src, dst, flow_id) == RouteWalk(net, src, dst, flow_id, net.nodes)

NextHopsExact ==
    drv.calls = 0 =>
    \A from, dst \in 0..network.nodes - 1 :
       Bind(next_hops(network, from, dst), LAMBDA nh :
       Bind(HopDist(network, from, dst), LAMBDA d :
          IF from = dst \/ d = -1 THEN nh = NoneVal
          ELSE /\ nh # NoneVal
               /\ {nh.some[i] : i \in DOMAIN nh.some}
                     = {u \in OutNeighbours(network, from) :
                           HopDist(network, u, dst) = d - 1}))

HopsGetCloser ==
    \A i \in VizIdx("NodeForward") :
       \A n \in DOMAIN drv.segs :
          drv.segs[n].id = network.viz[i].pkt_id
             => Bind(HopDist(network, network.viz[i].x.node, drv.segs[n].dst), LAMBDA d :
                   /\ d > 0
                   /\ HopDist(network, network.viz[i].x.next, drv.segs[n].dst) = d - 1)

RoutePathShortest ==
    drv.calls = 0 =>
    \A src, dst \in 0..network.nodes - 1 : \A flow \in RouteFlows :
       HopDist(network, src, dst) >= 0 =>
          Bind(route_ecmp_path(network, src, dst, flow), LAMBDA path :
             /\ path[1] = src
             /\ path[Len(path)] = dst
             /\ Len(path) = HopDist(network, src, dst) + 1
             /\ Len(path) <= network.nodes
             /\ \A i \in 1..Len(path) - 1 :
                   path[i + 1] \in OutNeighbours(network, path[i]))

\* C22: next_hops(from, dst) is exactly the set of the out-neighbours of from
\* that are one hop nearer to dst than from, and none when from = dst or dst
\* cannot be reached; every NodeForward of a dynamically routed packet goes to
\* a node one hop nearer to its destination; route_ecmp_path(src, dst, flow)
\* starts at src, ends at dst, follows links, and has as many nodes as a
\* shortest path, at most |nodes|.
C22_ShortestPathNextHops ==
    /\ NextHopsExact
    /\ HopsGetCloser
    /\ RoutePathShortest

\* A packet was delivered after two hops, at the first of which next_hops had
\* two candidates, in a graph where some node cannot reach some other.
C22_Witness ==
    /\ network.stats.delivered_pkts > 0
    /\ \E i \in VizIdx("NodeForward") :
          LET node == network.viz[i].x.node
              dst == drv.segs[1].dst
          IN /\ HopDist(network, node, dst) >= 2
             /\ Len(next_hops(network, node, dst).some) >= 2
    /\ \E a, b \in 0..network.nodes - 1 : HopDist(network, a, b) = -1

\* The injected packet that viz event i is about.
RoutePktOf(i) == CHOOSE pkt \in {drv.segs[n] : n \in DOMAIN drv.segs} :
                    pkt.id = network.viz[i].pkt_id

\* C23: the next hop of every NodeForward of a dynamically routed packet is
\* the value of pick_ecmp_with_key for the salt of the network, the node, the
\* packet's destination, its flow id as key and next_hops(node, dst) as
\* candidates, and is one of these candidates; so two packets of one flow to
\* one destination leave a node by the same next hop, whatever their packet
\* ids and the times they were sent at.
C23_EcmpPerFlow ==
    /\ \A i \in VizIdx("NodeForward") :
          Bind(RoutePktOf(i), LAMBDA pkt :
          Bind(next_hops(network, network.viz[i].x.node, pkt.dst), LAMBDA nh :
             /\ nh # NoneVal
             /\ network.viz[i].x.next \in {nh.some[c] : c \in DOMAIN nh.some}
             /\ network.viz[i].x.next
                   = pick_ecmp_with_key(564, network.viz[i].x.node, pkt.dst,
                                        pkt.flow_id, nh.some)))
    /\ \A i, j \in VizIdx("NodeForward") :
          network.viz[i].x.node = network.viz[j].x.node
             => network.viz[i].x.next = network.viz[j].x.next

\* Two packets of the flow with different ids, sent at different times, were
\* forwarded by a node that had two candidates.
C23_Witness ==
    \E i, j \in VizIdx("NodeForward") :
       /\ network.viz[i].pkt_id # network.viz[j].pkt_id
       /\ network.viz[i].t_ns # network.viz[j].t_ns
       /\ network.viz[i].x.node = network.viz[j].x.node
       /\ Len(next_hops(network, network.viz[i].x.node, drv.segs[1].dst).some) >= 2

(***************************************************************************)
(* The ECN specification: a DCTCP connection along a line of hosts whose   *)
(* links all have an ECN threshold, next to packets of the driver that     *)
(* share the queues.                                                       *)
(***************************************************************************)
EcnThresholds == {1, 2, 3}

\* set_link_ecn_threshold_bytes(from, to, th) for every link connected.
RECURSIVE SetEcnThresholds(_, _, _)
SetEcnThresholds(net, k, th) ==
    IF k = 0 THEN net
    ELSE set_link_ecn_threshold_bytes(SetEcnThresholds(net, k - 1, th),
                                      net.links[k].from, net.links[k].to, th)

InitEcn ==
    /\ sim = SimulatorDefault
    /\ \E n \in 2..MaxNodes, cap \in LineCapacities, th \in EcnThresholds :
          \E n1 \in {BuildLine(n, cap)}, marking \in BOOLEAN :
             network = SetEcnThresholds(n1, IF marking THEN Len(n1.links) ELSE 0, th)
    /\ drv = [pc |-> "setup", calls |-> 0, done_calls |-> <<>>]
    /\ dispatched = 0
    /\ dummy = NoneVal
    /\ tq = NoneVal
    /\ qlast = NoneVal
    /\ rx = NoneVal
    /\ packet = NoneVal
    /\ ring = NoneVal

EcnTotalBytes == {5, 10}

\* DctcpConfig with the default gain of 1/16 and with a gain of 2: g is a
\* public f64 that nothing checks (the bins take it from --dctcp-g).
EcnDctcpConfigs ==
    DctcpConfigs \cup {[cfg EXCEPT !.g = Frac(2, 1)] : cfg \in DctcpConfigs}

\* The driver creates a DCTCP connection along the line, long enough for
\* several windows, and calls dctcp.start_conn(conn, sim, net).
DctcpEcnStartCall ==
    /\ drv.pc = "setup"
    /\ drv.calls < MaxCalls
    /\ DOMAIN network.dctcp.conns = {}
    /\ \E cfg \in EcnDctcpConfigs, total \in EcnTotalBytes :
          \E w \in {dctcp_start_conn(World,
                       DctcpConnNew(DctcpConnId, 0, network.nodes - 1,
                                    LineRoute(network.nodes), total, cfg))} :
             /\ sim' = w.sim
             /\ network' = w.net
             /\ drv' = [w.drv EXCEPT !.calls = drv.calls + 1]
    /\ UNCHANGED <<unitVars, dummy, queueVars, dispatched>>

NextEcn == DctcpEcnStartCall \/ InjectCall \/ NetRunCall \/ NetRunStep \/ NetRunReturn

SpecEcn == InitEcn /\ [][NextEcn]_vars

\* The packets queued on a link or on a wire.
PktsIn(net, s) ==
    UNION {{LinkQueued(net.links[k])[i] : i \in DOMAIN LinkQueued(net.links[k])} :
              k \in DOMAIN net.links}
       \cup {it.ev.pkt : it \in {e \in s.q : e.ev.kind = "DeliverPacket"}}

DctcpDataPkts(net, s) ==
    {p \in PktsIn(net, s) : p.transport.proto = "Dctcp" /\ p.transport.seg = "Data"}

\* Every DCTCP data packet in the network carries ECT (or the CE a link made
\* of it), and every DCTCP ACK comes without ECT.
DataIsEct ==
    network # NoneVal
       => /\ \A p \in DctcpDataPkts(network, sim) : p.ecn \in {"Ect0", "Ce"}
          /\ \A p \in PktsIn(network, sim) :
                (p.transport.proto = "Dctcp" /\ p.transport.seg = "Ack")
                   => p.ecn = "NotEct"

\* The step that delivers a DCTCP data packet to the receiver of its
\* connection sends one ACK, the packet with the next packet id: its
\* ecn_echo is the CE bit of the packet delivered and its ack is rcv_nxt.
\* Every data packet a step emits carries ECT.
AckEchoesCe ==
    (network # NoneVal /\ network' # NoneVal /\ drv.pc = "run"
       /\ dispatched' # dispatched)
       => /\ \A p \in DctcpDataPkts(network', sim') :
                p.id >= network.next_pkt_id => p.ecn \in {"Ect0", "Ce"}
          /\ \A item \in sim.q :
                (/\ HeapTop(sim.q, item)
                 /\ item.ev.kind = "DeliverPacket"
                 /\ item.ev.pkt.transport.proto = "Dctcp"
                 /\ item.ev.pkt.transport.seg = "Data"
                 /\ item.ev.pkt.flow_id \in DOMAIN network.dctcp.conns
                 /\ item.ev.to = network.dctcp.conns[item.ev.pkt.flow_id].dst)
                   => /\ network'.next_pkt_id = network.next_pkt_id + 1
                      /\ \A p \in PktsIn(network', sim') :
                            p.id = network.next_pkt_id
                               => p.transport =
                                     DctcpAck(network'.dctcp.conns[p.flow_id].rcv_nxt,
                                              item.ev.pkt.ecn = "Ce")

\* C24: every DCTCP data packet, first transmission or retransmission, is
\* sent with ECT, and every DCTCP ACK carries ecn_echo equal to the CE bit of
\* the data packet whose delivery triggered it.
C24_EctAndEcho == []DataIsEct /\ [][AckEchoesCe]_vars

\* An ACK that echoes CE and an ACK that echoes no CE are on their way after
\* a retransmission of the connection.
C24_Witness ==
    /\ network # NoneVal
    /\ \E p \in PktsIn(network, sim) :
          p.transport.proto = "Dctcp" /\ p.transport.seg = "Ack" /\ p.transport.ecn_echo
    /\ \E i \in DOMAIN network.viz :
          network.viz[i].kind \in {"TcpRto", "TcpFastRetransmit"}

\* A new ACK of a DCTCP connection is at the top of the heap, addressed to
\* the sender.
DctcpNewAckAtTop(item, id) ==
    /\ HeapTop(sim.q, item)
    /\ item.ev.kind = "DeliverPacket"
    /\ item.ev.pkt.flow_id = id
    /\ item.ev.pkt.transport.proto = "Dctcp"
    /\ item.ev.pkt.transport.seg = "Ack"
    /\ item.ev.to = network.dctcp.conns[id].src
    /\ item.ev.pkt.transport.ack > network.dctcp.conns[id].last_acked

\* The marked bytes of the window once the ACK of item is counted.
MarkedWith(conn, item) ==
    conn.marked_in_window
       + IF item.ev.pkt.transport.ecn_echo
         THEN item.ev.pkt.transport.ack - conn.last_acked ELSE 0

\* cwnd after the slow start or congestion avoidance growth of a new ACK.
CwndGrown(conn, cwnd, newly_acked) ==
    IF cwnd < conn.ssthresh_bytes THEN cwnd + newly_acked
    ELSE cwnd + Max((conn.cfg.mss * conn.cfg.mss) \div cwnd, 1)

\* What a new ACK does to cwnd and window_end: away from a window boundary,
\* and at a boundary of a window without marked bytes, cwnd only grows; at a
\* boundary of a window with marked bytes it is first cut to
\* max(mss, floor(cwnd * (1 - alpha / 2))) with the alpha just updated. The
\* next window ends cwnd bytes (before the growth) after the ACK.
ReductionOnlyWithMarks ==
    (network # NoneVal /\ network' # NoneVal /\ drv.pc = "run"
       /\ dispatched' # dispatched)
       => \A id \in DOMAIN network.dctcp.conns : \A item \in sim.q :
             DctcpNewAckAtTop(item, id)
                => LET conn == network.dctcp.conns[id]
                       after == network'.dctcp.conns[id]
                       ack == item.ev.pkt.transport.ack
                       boundary == ack >= conn.window_end
                       marked == MarkedWith(conn, item)
                       a == after.alpha
                       cut == Max(conn.cfg.mss,
                                  (conn.cwnd_bytes * (2 * a.d - a.n)) \div (2 * a.d))
                   IN /\ (~boundary \/ marked = 0)
                         => /\ after.cwnd_bytes =
                                  CwndGrown(conn, conn.cwnd_bytes, ack - conn.last_acked)
                            /\ after.cwnd_bytes > conn.cwnd_bytes
                      /\ (boundary /\ marked = 0)
                         => after.window_end = ack + conn.cwnd_bytes
                      /\ (boundary /\ marked > 0)
                         => /\ after.cwnd_bytes =
                                  CwndGrown(conn, cut, ack - conn.last_acked)
                            /\ after.window_end = ack + cut
                      /\ ~boundary
                         => /\ after.window_end = conn.window_end
                            /\ after.alpha = conn.alpha

\* C25: at a DCTCP window boundary of a window in which no acknowledged byte
\* was marked cwnd is not reduced; the cut to
\* max(mss, floor(cwnd * (1 - alpha / 2))) is applied only at a window
\* boundary whose window had marked bytes.
C25_ReductionOnlyWithMarks == [][ReductionOnlyWithMarks]_vars

DctcpCwndIdx == {i \in DOMAIN network.viz : network.viz[i].kind = "DctcpCwnd"}

\* A window with marked bytes has ended, and after it a window without: alpha
\* went from a positive value to 15/16 of it, and cwnd did not go down.
C25_Witness ==
    /\ network # NoneVal
    /\ \E i, j \in DctcpCwndIdx :
          /\ i < j
          /\ network.viz[i].x.alpha.n > 0
          /\ 16 * network.viz[j].x.alpha.n * network.viz[i].x.alpha.d
                = 15 * network.viz[i].x.alpha.n * network.viz[j].x.alpha.d
          /\ network.viz[j].x.cwnd >= network.viz[i].x.cwnd

AlphaInUnitInterval(conn) ==
    /\ conn.alpha.d > 0
    /\ 0 <= conn.alpha.n
    /\ conn.alpha.n <= conn.alpha.d
    /\ conn.marked_in_window <= conn.acked_in_window

AlphaInUnitIntervalForUnitGain ==
    network # NoneVal
       => \A id \in DOMAIN network.dctcp.conns :
             LET conn == network.dctcp.conns[id]
             IN (0 <= conn.cfg.g.n /\ conn.cfg.g.n <= conn.cfg.g.d)
                   => AlphaInUnitInterval(conn)

\* A connection with g = 1/16 after a window with marked and unmarked bytes.
AlphaFractional ==
    /\ network # NoneVal
    /\ \E id \in DOMAIN network.dctcp.conns :
          /\ network.dctcp.conns[id].cfg.g = Frac(1, 16)
          /\ network.dctcp.conns[id].alpha.n > 0
          /\ network.dctcp.conns[id].alpha.d > 16

(***************************************************************************)
(* Claims about the operations of the ring collective (SpecRing).          *)
(***************************************************************************)
\* The steps of which the flows have been started.
RingStepsStarted == ring.st.step + IF ring.st.inflight > 0 THEN 1 ELSE 0

RingExpectedSteps(op, ranks) ==
    IF ranks <= 1 THEN 0 ELSE IF op = "Allreduce" THEN 2 * (ranks - 1) ELSE ranks - 1

RingToNeighbour(rec) == rec.dst = (rec.src + 1) % drv.ranks

RingPairs == {<<RingRecords[i].src, RingRecords[i].dst>> : i \in 1..Len(RingRecords)}

RingReducing(st) == st.op \in {"Allreduce", "Reducescatter"} /\ st.ranks >= 2

\* The time at which step s completed: the latest completion of its flows.
RingStepDoneAt(s) == MaxOfSet({RingRecords[j].done_at : j \in RingStepRecords(s)})

\* reduce_done_at is there exactly from the completion of the
\* (ranks - 1)-th step of a reducing collective on, with the time of that
\* completion; a reducescatter is then done, at the same time.
ReduceDoneAtRecorded ==
    (ring # NoneVal /\ ring.st # NoneVal) =>
        LET st == ring.st
        IN /\ ~RingReducing(st) => st.reduce_done_at = NoneVal
           /\ RingReducing(st)
                => /\ st.reduce_done_at # NoneVal <=> st.step >= st.ranks - 1
                   /\ st.reduce_done_at # NoneVal
                        => st.reduce_done_at = Some(RingStepDoneAt(st.ranks - 2))
           /\ (st.op = "Reducescatter" /\ st.ranks >= 2)
                => /\ st.reduce_done_at = st.done_at
                   /\ drv.pc = "done" => st.reduce_done_at # NoneVal

\* reduce_done_at is set once: no step changes it when it is there.
ReduceDoneAtSetOnce ==
    (ring # NoneVal /\ ring.st # NoneVal /\ ring.st.reduce_done_at # NoneVal)
       => ring'.st.reduce_done_at = ring.st.reduce_done_at

\* An allreduce over two ranks or more that is done has reduce_done_at set,
\* earlier than done_at.
ReduceDoneEarlier ==
    (ring # NoneVal /\ ring.st # NoneVal /\ ring.st.op = "Allreduce"
       /\ ring.st.ranks >= 2 /\ ring.st.done_at # NoneVal)
       => /\ ring.st.reduce_done_at # NoneVal
          /\ ring.st.reduce_done_at.some < ring.st.done_at.some

\* The same with reduce_done_at not later than done_at, and equal to it only
\* when no flow of the steps after the (ranks - 1)-th took any time.
ReduceDoneNotLater ==
    (ring # NoneVal /\ ring.st # NoneVal /\ ring.st.op = "Allreduce"
       /\ ring.st.ranks >= 2 /\ ring.st.done_at # NoneVal)
       => /\ ring.st.reduce_done_at # NoneVal
          /\ ring.st.reduce_done_at.some <= ring.st.done_at.some
          /\ ring.st.reduce_done_at.some = ring.st.done_at.some
                <=> \A i \in 1..Len(RingRecords) :
                       RingStepOf(RingRecords[i].flow_id) >= ring.st.ranks - 1
                          => RingRecords[i].done_at = RingRecords[i].start_at

MaxPathLen == 3
MaxAdvance == 5
PathNodes == 0..2

PacketPaths == UNION {[1..n -> PathNodes] : n \in 1..MaxPathLen}

InitPacket ==
    /\ \E path \in PacketPaths, kind \in {"Preset", "Mixed", "Dynamic"},
          hops \in {0, HopsTakenMax - 1} :
          packet = [pkt |-> [(CASE kind = "Preset" -> new_preset(1, 10, 100, path)
                               [] kind = "Mixed" -> new_mixed(1, 10, 100, path, 9)
                               [] OTHER -> new_dynamic(1, 10, 100, path[1],
                                                       path[Len(path)]))
                               EXCEPT !.hops_taken = hops],
                    path |-> path, hops |-> hops, calls |-> 0]
    /\ sim = SimulatorDefault
    /\ drv = [pc |-> "advance"]
    /\ dummy = NoneVal
    /\ tq = NoneVal
    /\ qlast = NoneVal
    /\ network = NoneVal
    /\ dispatched = 0
    /\ rx = NoneVal
    /\ ring = NoneVal

\* pkt = pkt.advance()
AdvanceCall ==
    /\ drv.pc = "advance"
    /\ packet.calls < MaxAdvance
    /\ packet' = [packet EXCEPT !.pkt = advance(packet.pkt),
                                !.calls = packet.calls + 1]
    /\ UNCHANGED <<rx, ring, sim, drv, dummy, queueVars, netVars>>

NextPacket == AdvanceCall

SpecPacket == InitPacket /\ [][NextPacket]_vars

IsPresetPacket == packet # NoneVal /\ packet.pkt.routing.kind = "Preset"

\* After k calls of advance preset_next is p[k+1] (p counted from 0) while
\* k + 1 < |p|, and none from then on.
PresetNextWalksPath ==
    IsPresetPacket
       => preset_next(packet.pkt) =
             IF packet.calls + 1 < Len(packet.path)
             THEN Some(packet.path[packet.calls + 2]) ELSE NoneVal

\* hops_taken counts every call of advance and saturates at its maximum.
HopsTakenSaturates ==
    packet # NoneVal
       => packet.pkt.hops_taken =
             IF packet.calls > HopsTakenMax - packet.hops THEN HopsTakenMax
             ELSE packet.hops + packet.calls

\* A call of advance on a Preset packet whose preset_next is none leaves the
\* routing state, variant and cursor, as it was.
AdvancePastEndKeepsRouting ==
    (IsPresetPacket /\ preset_next(packet.pkt) = NoneVal)
       => packet'.pkt.routing = packet.pkt.routing

\* The same call keeps the variant, the path and preset_next = none, and
\* moves the cursor of a Preset packet one further.
AdvancePastEndMovesCursor ==
    (IsPresetPacket /\ preset_next(packet.pkt) = NoneVal)
       => /\ packet'.pkt.routing.kind = "Preset"
          /\ packet'.pkt.routing.path = packet.pkt.routing.path
          /\ packet'.pkt.routing.idx = packet.pkt.routing.idx + 1
          /\ preset_next(packet'.pkt) = NoneVal

\* C31: for a Preset packet with path p, preset_next() after k calls of
\* advance is p[k+1] while k+1 < |p| and none from then on; a call of advance
\* past the end of the path leaves the routing state (variant and cursor)
\* unchanged, while hops_taken still counts the call and saturates at its
\* maximum.
C31_PresetWalk ==
    [](PresetNextWalksPath /\ HopsTakenSaturates)
       /\ [][AdvancePastEndKeepsRouting]_vars

\* What holds of the walk: the path in order, then none for good, the cursor
\* of a Preset packet counting on, hops_taken saturating.
PresetWalkCursorMoves ==
    [](PresetNextWalksPath /\ HopsTakenSaturates)
       /\ [][AdvancePastEndMovesCursor]_vars

\* A Preset packet was advanced past the end of a path of three nodes, with
\* hops_taken at its maximum.
PresetWalkPastEnd ==
    /\ IsPresetPacket
    /\ Len(packet.path) = 3
    /\ packet.calls > 3
    /\ packet.pkt.hops_taken = HopsTakenMax

(***************************************************************************)
(* Claims about the timers and the windows of the connections (SpecNet).   *)
(***************************************************************************)
\* The DctcpRto events pending for the earliest unacknowledged segment of a
\* connection.
DctcpRtoPending(conn) ==
    {item \in sim.q : /\ item.ev.kind = "DctcpRto"
                      /\ item.ev.conn_id = conn.id
                      /\ Some(item.ev.seq) = earliest_unacked_seq(conn)}

\* A DCTCP connection that is not done and has data in flight has a timer
\* pending for its earliest unacknowledged segment.
DctcpTimerPending ==
    network # NoneVal
       => \A id \in DOMAIN network.dctcp.conns :
             LET conn == network.dctcp.conns[id]
             IN (conn.done_at = NoneVal /\ DOMAIN conn.inflight # {})
                   => DctcpRtoPending(conn) # {}

\* When sim.run has returned, every DCTCP connection with total_bytes > 0 is
\* done.
DctcpDoneAtReturn ==
    (network # NoneVal /\ drv.pc = "done")
       => \A id \in DOMAIN network.dctcp.conns :
             network.dctcp.conns[id].total_bytes > 0
                => network.dctcp.conns[id].done_at # NoneVal

\* C32: whenever a DCTCP connection is not done and has unacknowledged data
\* in flight, an RTO timer that will retransmit its earliest unacknowledged
\* segment is pending; so a DCTCP connection with total_bytes > 0 completes,
\* also when the lost segment was not the earliest unacknowledged one at the
\* time it was sent.
C32_DctcpTimerPending == DctcpTimerPending /\ DctcpDoneAtReturn

(***************************************************************************)
(* A line whose connection has enough data for a loss in the middle of a   *)
(* window: later segments arrive, three duplicate ACKs start fast           *)
(* retransmit and fast recovery, and timers fire in every phase.            *)
(***************************************************************************)
LossTotalBytes == {12, 16}

LossTcpConfigs ==
    [mss : {2}, ack_bytes : {1}, init_cwnd_bytes : {2, 6, 8},
     init_ssthresh_bytes : {2000}, init_rto : {6, 40}, min_rto : {6},
     max_rto : {160}, handshake : BOOLEAN, app_limited_pps : {NoneVal}]

\* The driver creates a TCP connection with several windows of data and
\* calls tcp.start_conn(conn, sim, net).
TcpLossStartCall ==
    /\ drv.pc = "setup"
    /\ drv.calls < MaxCalls
    /\ DOMAIN network.dctcp.conns = {} /\ DOMAIN network.tcp.conns = {}
    /\ \E cfg \in LossTcpConfigs, total \in LossTotalBytes :
          \E w \in {start_conn(World,
                       TcpConnNewDynamic(TcpConnId, 0, network.nodes - 1, total, cfg))} :
             /\ sim' = w.sim
             /\ network' = w.net
             /\ drv' = [w.drv EXCEPT !.calls = drv.calls + 1]
    /\ UNCHANGED <<unitVars, dummy, queueVars, dispatched>>

LossDctcpConfigs ==
    [mss : {2}, ack_bytes : {1}, init_cwnd_bytes : {2, 8}, init_ssthresh_bytes : {2000},
     init_rto : {6, 40}, max_rto : {160}, g : {Frac(1, 16), Frac(2, 1)}]

\* The driver creates a DCTCP connection with several windows of data and
\* calls dctcp.start_conn(conn, sim, net).
DctcpLossStartCall ==
    /\ drv.pc = "setup"
    /\ drv.calls < MaxCalls
    /\ DOMAIN network.dctcp.conns = {} /\ DOMAIN network.tcp.conns = {}
    /\ \E cfg \in LossDctcpConfigs, total \in LossTotalBytes :
          \E w \in {dctcp_start_conn(World,
                       DctcpConnNew(DctcpConnId, 0, network.nodes - 1,
                                    LineRoute(network.nodes), total, cfg))} :
             /\ sim' = w.sim
             /\ network' = w.net
             /\ drv' = [w.drv EXCEPT !.calls = drv.calls + 1]
    /\ UNCHANGED <<unitVars, dummy, queueVars, dispatched>>

NextLoss ==
    \/ TcpLossStartCall \/ DctcpLossStartCall
    \/ NetRunCall \/ NetRunStep \/ NetRunReturn

\* The lines are those of InitEcn: with an ECN threshold on every link or on
\* none.
SpecLoss == InitEcn /\ [][NextLoss]_vars

\* The TcpRto at the top of the heap is live for its connection, which is
\* Established with data in flight.
LiveTcpRto(item) ==
    /\ item.ev.kind = "TcpRto"
    /\ item.ev.conn_id \in DOMAIN network.tcp.conns
    /\ LET conn == network.tcp.conns[item.ev.conn_id]
       IN /\ conn.done_at = NoneVal
          /\ conn.rto_deadline # NoneVal
          /\ conn.rto_token = item.ev.token
          /\ item.at >= conn.rto_deadline.some
          /\ conn.sender_state = "Established"
          /\ DOMAIN conn.inflight # {}

\* What the timeout leaves behind, apart from ssthresh.
TcpRtoEffect(item) ==
    LET id == item.ev.conn_id
        conn == network.tcp.conns[id]
        after == network'.tcp.conns[id]
        seq0 == earliest_unacked_seq(conn).some
        news == {i \in DOMAIN network'.viz : i > Len(network.viz)}
    IN /\ after.cwnd_bytes = conn.cfg.mss
       /\ ~after.in_fast_recovery
       /\ after.dup_acks = 0
       /\ after.recover = conn.next_seq
       /\ after.rto = Min(Max(2 * conn.rto, conn.cfg.min_rto), conn.cfg.max_rto)
       /\ DOMAIN after.inflight = DOMAIN conn.inflight
       /\ after.inflight[seq0] = [len |-> conn.inflight[seq0].len, sent_at |-> item.at,
                                  retransmitted |-> TRUE]
       /\ \A t \in DOMAIN conn.inflight \ {seq0} : after.inflight[t] = conn.inflight[t]
       /\ \E i \in news : /\ network'.viz[i].kind = "TcpRto"
                           /\ network'.viz[i].flow_id = id
                           /\ network'.viz[i].x.seq = seq0
       /\ \E i \in news : /\ network'.viz[i].kind = "NodeForward"
                           /\ network'.viz[i].flow_id = id
                           /\ network'.viz[i].pkt_bytes = conn.cfg.mss
                           /\ network'.viz[i].t_ns = item.at
       /\ after.rto_deadline = Some(item.at + after.rto)
       /\ after.rto_token = conn.rto_token + 1
       /\ \E e \in sim'.q : /\ e.ev = [kind |-> "TcpRto", conn_id |-> id,
                                        token |-> after.rto_token]
                            /\ e.at = item.at + after.rto

\* The window the timeout halves: in fast recovery the inflated cwnd is first
\* set back to min(ssthresh, flight size + mss).
TcpRtoCwnd(conn) ==
    IF conn.in_fast_recovery
    THEN Min(conn.ssthresh_bytes, (conn.next_seq - conn.last_acked) + conn.cfg.mss)
    ELSE conn.cwnd_bytes

TcpRtoStep(item) ==
    /\ network # NoneVal /\ network' # NoneVal
    /\ drv.pc = "run" /\ dispatched' # dispatched
    /\ HeapTop(sim.q, item)
    /\ LiveTcpRto(item)

\* C33 as stated: a live RTO on an Established connection with data in
\* flight sets ssthresh to max(cwnd/2, 2*mss) of the cwnd held just before the
\* timeout, in fast recovery too, sets cwnd to mss, leaves fast recovery, sets
\* recover to next_seq, doubles and clamps rto, retransmits the earliest
\* unacknowledged segment with sent_at = now, and arms a new timer.
C33_RtoFromHeldCwnd ==
    [][\A item \in sim.q : TcpRtoStep(item) =>
          /\ network'.tcp.conns[item.ev.conn_id].ssthresh_bytes =
                Max(network.tcp.conns[item.ev.conn_id].cwnd_bytes \div 2,
                    2 * network.tcp.conns[item.ev.conn_id].cfg.mss)
          /\ TcpRtoEffect(item)]_vars

\* C33 (amended): the same, with ssthresh computed from the cwnd held just
\* before the timeout outside fast recovery, and from
\* min(ssthresh, next_seq - last_acked + mss) in fast recovery.
C33_RtoFromDeflatedCwnd ==
    [][\A item \in sim.q : TcpRtoStep(item) =>
          /\ network'.tcp.conns[item.ev.conn_id].ssthresh_bytes =
                Max(TcpRtoCwnd(network.tcp.conns[item.ev.conn_id]) \div 2,
                    2 * network.tcp.conns[item.ev.conn_id].cfg.mss)
          /\ TcpRtoEffect(item)]_vars

\* A timeout in fast recovery has been taken: the only TcpRto entry of the
\* log comes after four ACKs in a row with the highest ack number seen (three
\* duplicates at least, so that the sender was in fast recovery), no ACK has
\* come since, and the connection is out of fast recovery with cwnd = mss.
C33_Witness ==
    /\ network # NoneVal
    /\ \E id \in DOMAIN network.tcp.conns :
          /\ network.tcp.conns[id].cwnd_bytes = network.tcp.conns[id].cfg.mss
          /\ ~network.tcp.conns[id].in_fast_recovery
          /\ \E j \in TcpVizOf("TcpRto", id) :
                /\ TcpVizOf("TcpRto", id) = {j}
                /\ \A i \in TcpVizOf("TcpRecvAck", id) : i < j
                /\ \E a \in 0..network.tcp.conns[id].total_bytes :
                      /\ Cardinality({i \in TcpVizOf("TcpRecvAck", id) :
                                         network.viz[i].x.ack = a}) >= 4
                      /\ \A i \in TcpVizOf("TcpRecvAck", id) : network.viz[i].x.ack <= a

(***************************************************************************)
(* A line with cross traffic: raw packets enter at node 0 while the        *)
(* handshake of a connection is under way, so that a queue on the way is   *)
(* full when the third segment of the handshake reaches it.                *)
(***************************************************************************)
MaxCrossCalls == 3   \* driver calls before the run, with cross traffic
CrossTimes == {6, 8}
CrossSizes == {2}

\* The driver schedules the delivery of a raw packet to node 0.
CrossInjectCall ==
    /\ drv.pc = "setup"
    /\ drv.calls < MaxCrossCalls
    /\ \E at \in CrossTimes, size \in CrossSizes :
          LET pkt == new_dynamic(100 + drv.calls, 100 + drv.calls, size,
                                 0, network.nodes - 1)
          IN sim' = schedule(sim, at, [kind |-> "DeliverPacket", to |-> 0, pkt |-> pkt])
    /\ drv' = [drv EXCEPT !.calls = drv.calls + 1]
    /\ UNCHANGED <<unitVars, network, dummy, queueVars, dispatched>>

NextCross == TcpStartCall \/ CrossInjectCall \/ NetRunCall \/ NetRunStep \/ NetRunReturn

SpecCross == InitNet /\ [][NextCross]_vars

\* The event at the top of the heap delivers a Data segment of a connection
\* with handshake to its destination, whose receiver is not Established.
DataBeforeEstablished(item) ==
    /\ item.ev.kind = "DeliverPacket"
    /\ item.ev.pkt.transport.proto = "Tcp"
    /\ item.ev.pkt.transport.seg = "Data"
    /\ item.ev.pkt.flow_id \in DOMAIN network.tcp.conns
    /\ item.ev.to = network.tcp.conns[item.ev.pkt.flow_id].dst
    /\ network.tcp.conns[item.ev.pkt.flow_id].cfg.handshake
    /\ network.tcp.conns[item.ev.pkt.flow_id].receiver_state # "Established"

\* C34: with handshake enabled, a Data segment that reaches the destination
\* while the receiver is Idle or SynReceived is discarded: rcv_nxt and the
\* out-of-order set stay as they are and no ACK is sent.
C34_DataDiscardedBeforeEstablished ==
    [][(network # NoneVal /\ network' # NoneVal /\ drv.pc = "run"
          /\ dispatched' # dispatched)
         => \A item \in sim.q : (HeapTop(sim.q, item) /\ DataBeforeEstablished(item)) =>
               LET id == item.ev.pkt.flow_id
               IN /\ network'.tcp.conns[id].rcv_nxt = network.tcp.conns[id].rcv_nxt
                  /\ network'.tcp.conns[id].out_of_order = network.tcp.conns[id].out_of_order
                  /\ \A i \in DOMAIN network'.viz :
                        i > Len(network.viz) => network'.viz[i].kind # "TcpSendAck"]_vars

(***************************************************************************)
(* Claims about the marking of packets (SpecEcn). The Enqueue entries of   *)
(* the viz log hold the link and the bytes queued right after the enqueue, *)
(* which are the bytes queued before it plus the size of the packet.       *)
(***************************************************************************)
\* The Enqueue entries of packet p on a link with a threshold that the bytes
\* queued, p included, exceeded.
MarkingEnqueues(p) ==
    {i \in VizIdx("Enqueue") :
        /\ network.viz[i].pkt_id = p.id
        /\ LET link == network.links[EdgeLink(network, network.viz[i].x.link_from,
                                              network.viz[i].x.link_to)]
           IN /\ link.ecn_threshold_bytes # NoneVal
              /\ network.viz[i].x.q_bytes > link.ecn_threshold_bytes.some}

\* The packets that were created with ECT: the data packets of DCTCP.
CreatedEct(p) == p.transport.proto = "Dctcp" /\ p.transport.seg = "Data"

LinkServing ==
    \A k \in DOMAIN network.links :
       LinkQueued(network.links[k]) # <<>>
          => /\ network.links[k].busy_until >= sim.now
             /\ \E item \in sim.q : /\ item.ev.kind = "LinkReady"
                                     /\ item.ev.link_id = k
                                     /\ item.at = network.links[k].busy_until

\* The TxStart entries of the packet and the link of Enqueue entry i.
TxStartsOf(i) ==
    {j \in VizIdx("TxStart") :
        /\ j > i
        /\ network.viz[j].pkt_id = network.viz[i].pkt_id
        /\ network.viz[j].x.link_from = network.viz[i].x.link_from
        /\ network.viz[j].x.link_to = network.viz[i].x.link_to}

\* Every packet a queue accepted has been dequeued and transmitted, and no
\* queue holds a packet.
EveryEnqueueTransmitted ==
    /\ \A i \in VizIdx("Enqueue") : TxStartsOf(i) # {}
    /\ \A k \in DOMAIN network.links : LinkQueued(network.links[k]) = <<>>

\* C36: at every event boundary a link whose queue is not empty is
\* serializing a packet and has a LinkReady pending at its busy_until; and
\* once the run is under way every packet that a queue accepted is eventually
\* dequeued and transmitted, none staying queued on an idle link.
C36_QueuedPacketsAreServed ==
    /\ []LinkServing
    /\ (drv.pc = "run") ~> EveryEnqueueTransmitted

\* The run has ended with every packet transmitted, one of them after a wait
\* in a queue behind another packet.
C36_Witness ==
    /\ drv.pc = "done"
    /\ EveryEnqueueTransmitted
    /\ \E i \in VizIdx("Enqueue") :
          /\ network.viz[i].x.q_bytes > network.viz[i].pkt_bytes
          /\ \E j \in TxStartsOf(i) : network.viz[j].t_ns > network.viz[i].t_ns

(***************************************************************************)
(* Claims about the retransmission timer of TCP.                           *)
(***************************************************************************)
\* The pending TcpRto events that carry the current token of the connection.
CurrentTcpRtos(conn) ==
    {item \in sim.q : /\ item.ev.kind = "TcpRto"
                      /\ item.ev.conn_id = conn.id
                      /\ item.ev.token = conn.rto_token}

\* C37: at every event boundary a TCP connection that is not done and has
\* data in flight or a SYN outstanding has rto_deadline set and a TcpRto with
\* the current rto_token pending at that deadline; and at most one pending
\* TcpRto carries the current token.
C37_TimerArmed ==
    network # NoneVal =>
       \A id \in DOMAIN network.tcp.conns :
          LET conn == network.tcp.conns[id]
          IN conn.done_at = NoneVal
                => /\ (DOMAIN conn.inflight # {} \/ conn.syn_sent_at # NoneVal)
                        => /\ conn.rto_deadline # NoneVal
                           /\ \E item \in CurrentTcpRtos(conn) :
                                 item.at = conn.rto_deadline.some
                   /\ Cardinality(CurrentTcpRtos(conn)) <= 1
\* A connection with data in flight has its current timer pending next to a
\* stale one of an earlier token, after a new ACK restarted the timer.
C37_Witness ==
    /\ network # NoneVal
    /\ \E id \in DOMAIN network.tcp.conns :
          LET conn == network.tcp.conns[id]
          IN /\ conn.done_at = NoneVal
             /\ DOMAIN conn.inflight # {}
             /\ conn.last_acked > 0
             /\ CurrentTcpRtos(conn) # {}
             /\ \E item \in sim.q : /\ item.ev.kind = "TcpRto"
                                     /\ item.ev.conn_id = id
                                     /\ item.ev.token < conn.rto_token

(***************************************************************************)
(* Claims about the sequence space of a connection: what the sender has    *)
(* seen acknowledged against what the receiver has received.               *)
(***************************************************************************)
\* The connections of both stacks; the ids of the two stacks are distinct in
\* the runs of this model.
ConnOf(net, id) ==
    IF id \in DOMAIN net.tcp.conns THEN net.tcp.conns[id] ELSE net.dctcp.conns[id]

ConnIds(net) == DOMAIN net.tcp.conns \cup DOMAIN net.dctcp.conns

\* last_acked is at most rcv_nxt, which is at most what the sender sent, and
\* a connection that is done has received every byte.
AckedWasReceived ==
    network # NoneVal =>
       \A id \in ConnIds(network) :
          LET conn == ConnOf(network, id)
          IN /\ conn.last_acked <= conn.rcv_nxt
             /\ conn.rcv_nxt <= conn.next_seq
             /\ conn.done_at # NoneVal => conn.rcv_nxt >= conn.total_bytes

\* The event at the top of the heap delivers a data segment of connection id
\* to its destination.
DataDelivery(item, id) ==
    /\ HeapTop(sim.q, item)
    /\ item.ev.kind = "DeliverPacket"
    /\ item.ev.pkt.flow_id = id
    /\ item.ev.pkt.transport.seg = "Data"
    /\ item.ev.to = ConnOf(network, id).dst

\* rcv_nxt and last_acked never decrease, and rcv_nxt moves only in a step
\* that delivers the data segment starting at rcv_nxt to the destination,
\* over that segment and over segments buffered out of order, which were
\* buffered in steps that delivered them.
ReceivedWasDelivered ==
    (network # NoneVal /\ network' # NoneVal) =>
       \A id \in ConnIds(network) \cap ConnIds(network') :
          LET conn == ConnOf(network, id)
              after == ConnOf(network', id)
              ooo == IF id \in DOMAIN network.tcp.conns THEN conn.out_of_order ELSE <<>>
              ooo1 == IF id \in DOMAIN network.tcp.conns THEN after.out_of_order ELSE <<>>
          IN /\ after.rcv_nxt >= conn.rcv_nxt
             /\ after.last_acked >= conn.last_acked
             /\ after.rcv_nxt # conn.rcv_nxt
                  => \E item \in sim.q :
                        /\ DataDelivery(item, id)
                        /\ item.ev.pkt.transport.seq = conn.rcv_nxt
                        /\ DOMAIN ooo1 \subseteq DOMAIN ooo
                        /\ \A b \in conn.rcv_nxt .. after.rcv_nxt - 1 :
                              \/ b < conn.rcv_nxt + item.ev.pkt.transport.len
                              \/ \E k \in DOMAIN ooo \ DOMAIN ooo1 : k <= b /\ b < k + ooo[k]
             /\ (after.rcv_nxt = conn.rcv_nxt /\ ooo1 # ooo)
                  => \E item \in sim.q :
                        /\ DataDelivery(item, id)
                        /\ item.ev.pkt.transport.seq > conn.rcv_nxt
                        /\ ooo1 = (item.ev.pkt.transport.seq :> item.ev.pkt.transport.len) @@ ooo

\* C38: for every connection last_acked is at most rcv_nxt at every point,
\* rcv_nxt covers only bytes of data segments that were delivered to the
\* destination, neither value ever decreases, and a connection that is done
\* has received every byte of [0, total_bytes).
C38_AckedReceivedDelivered == []AckedWasReceived /\ [][ReceivedWasDelivered]_vars

\* A connection is done after its receiver buffered a segment out of order
\* and later moved rcv_nxt over it.
C38_Witness ==
    /\ network # NoneVal
    /\ \E id \in DOMAIN network.tcp.conns :
          LET conn == network.tcp.conns[id]
          IN /\ conn.done_at # NoneVal
             /\ conn.total_bytes > 0
             /\ \E i, j \in TcpVizOf("TcpSendAck", id) :
                   /\ j = i + 1 \/ \A k \in i + 1 .. j - 1 : network.viz[k].kind # "TcpSendAck"
                   /\ i < j
                   /\ network.viz[j].x.ack
                         > network.viz[i].x.ack + conn.cfg.mss

(***************************************************************************)
(* Claims about the sizes of the windows (SpecLoss).                       *)
(***************************************************************************)
\* cwnd and ssthresh of every connection are at least one segment.
WindowsAtLeastMss ==
    network # NoneVal =>
       \A id \in ConnIds(network) :
          LET conn == ConnOf(network, id)
          IN conn.cfg.mss > 0
                => /\ conn.cwnd_bytes >= conn.cfg.mss
                   /\ conn.ssthresh_bytes >= conn.cfg.mss

\* The sender of the connection has started, is Established (TCP) and not
\* done.
SenderActive(id) ==
    LET conn == ConnOf(network, id)
    IN /\ conn.start_at # NoneVal
       /\ conn.done_at = NoneVal
       /\ id \in DOMAIN network.tcp.conns => conn.sender_state = "Established"

\* An active sender is never left with nothing in flight: with a window of
\* at least one segment it has sent what was free to be sent.
NeverStalled ==
    network # NoneVal =>
       \A id \in ConnIds(network) :
          (SenderActive(id) /\ ConnOf(network, id).total_bytes > 0)
             => /\ DOMAIN ConnOf(network, id).inflight # {}
                /\ ConnOf(network, id).next_seq > ConnOf(network, id).last_acked

\* C39: with mss > 0, cwnd_bytes >= mss and ssthresh_bytes >= mss in every
\* state of a TCP or DCTCP connection, so that an established sender that is
\* not done is never left with nothing in flight: it could send a segment,
\* and it did.
C39_WindowsAtLeastMss == WindowsAtLeastMss /\ NeverStalled

\* A TCP connection is at cwnd = mss, the least window, after a timeout that
\* followed a fast retransmit (four ACKs with one ack number) and a new ACK.
C39_Witness ==
    /\ network # NoneVal
    /\ \E id \in DOMAIN network.tcp.conns :
          LET conn == network.tcp.conns[id]
          IN /\ conn.cwnd_bytes = conn.cfg.mss
             /\ conn.done_at = NoneVal
             /\ \E r \in TcpVizOf("TcpRto", id), i, j \in TcpVizOf("TcpRecvAck", id) :
                   /\ i < j /\ j < r
                   /\ network.viz[i].x.ack < network.viz[j].x.ack
                   /\ Cardinality({k \in TcpVizOf("TcpRecvAck", id) :
                                      k <= i /\ network.viz[k].x.ack = network.viz[i].x.ack}) >= 4

(***************************************************************************)
(* A line whose driver changes the capacity of a queue after a connection  *)
(* has started, when segments of its first window wait in the queue.       *)
(***************************************************************************)
NewCapacities == {2, 4}

\* The driver calls net.set_link_queue_capacity_bytes(from, to, c) for a link
\* of the line.
SetCapacityCall ==
    /\ drv.pc = "setup"
    /\ drv.calls < MaxCalls
    /\ \E k \in DOMAIN network.links, c \in NewCapacities :
          network' = set_link_queue_capacity_bytes(network, network.links[k].from,
                                                   network.links[k].to, c)
    /\ drv' = [drv EXCEPT !.calls = drv.calls + 1]
    /\ UNCHANGED <<unitVars, sim, dummy, queueVars, dispatched>>

NextCap == TcpStartCall \/ SetCapacityCall \/ NetRunCall \/ NetRunStep \/ NetRunReturn

SpecCap == InitNet /\ [][NextCap]_vars

\* A step of the driver that calls set_link_queue_capacity_bytes: a call
\* before the run that touches neither the event heap nor a connection.
IsSetCapacityStep ==
    /\ network # NoneVal /\ network' # NoneVal
    /\ drv.pc = "setup" /\ drv'.pc = "setup"
    /\ drv'.calls = drv.calls + 1
    /\ sim' = sim
    /\ network'.tcp = network.tcp /\ network'.dctcp = network.dctcp

\* C40: set_link_queue_capacity_bytes(from, to, c) changes only the capacity
\* of the queue of that link: the packets queued on the link stay queued in
\* the same order, to be transmitted later, and the queues of the other
\* links are unchanged.
C40_OnlyCapacityChanges ==
    [][IsSetCapacityStep =>
          \E k \in DOMAIN network.links :
             /\ LinkQueued(network'.links[k]) = LinkQueued(network.links[k])
             /\ bytes(network'.links[k].queue) = bytes(network.links[k].queue)
             /\ \A j \in DOMAIN network.links \ {k} :
                   network'.links[j] = network.links[j]]_vars

\* What holds of the call: the queue of one link is replaced and nothing
\* else of the network changes.
SetCapacityTouchesOneLink ==
    [][IsSetCapacityStep =>
          \E k \in DOMAIN network.links :
             /\ \A j \in DOMAIN network.links \ {k} : network'.links[j] = network.links[j]
             /\ network' = [network EXCEPT !.links[k].queue = network'.links[k].queue]
             /\ LinkQueued(network'.links[k]) = <<>>]_vars

====
